---------------------------- MODULE Spec2Model ----------------------------
(***************************************************************************)
(* A model of the DKIM signer and verifier of go-msgauth.                   *)
(*                                                                         *)
(* Bytes are integers (their ASCII codes) and byte strings are sequences   *)
(* of integers.  The library functions of Go that the code calls           *)
(* (strings.TrimSpace, strings.SplitN, regexp, bufio.Reader, io.Pipe ...)  *)
(* are written out as operators that compute what the library computes.   *)
(*                                                                         *)
(* SHA-256 and the RSA signature are symbolic: a digest is the byte string *)
(* that was hashed, a signature is the pair of the signing key and the     *)
(* digest it was made over, and the base64 text of either is a run of      *)
(* opaque characters (codes above 255) of the length the real text has,    *)
(* which names an entry of the table "oracle" carried with the message.    *)
(***************************************************************************)
EXTENDS Integers, Sequences, FiniteSets, TLC

(***************************************************************************)
(* Byte strings.                                                           *)
(***************************************************************************)

\* "\r\n" (src/header.go:43).
crlf == <<13, 10>>

\* unicode.IsSpace restricted to bytes: HT, LF, VT, FF, CR, SP.
IsSpace(c) == c \in {9, 10, 11, 12, 13, 32}

\* The concatenation of the sequences ss[lo..hi], by halving (the recursion
\* depth is logarithmic in hi - lo).
RECURSIVE FlattenRange(_, _, _)
FlattenRange(ss, lo, hi) ==
    IF lo > hi THEN <<>>
    ELSE IF lo = hi THEN ss[lo]
    ELSE LET mid == (lo + hi) \div 2
         IN  FlattenRange(ss, lo, mid) \o FlattenRange(ss, mid + 1, hi)

Flatten(ss) == FlattenRange(ss, 1, Len(ss))

\* The k-th smallest element of a finite set of integers.
Nth(P, k) == CHOOSE p \in P : Cardinality({q \in P : q < p}) = k - 1

\* The elements of a finite set of integers in ascending order.
Sorted(P) == [k \in 1..Cardinality(P) |-> Nth(P, k)]

Min(a, b) == IF a < b THEN a ELSE b

\* strings.ToLower on ASCII.
ToLower(s) == [i \in 1..Len(s) |-> IF s[i] \in 65..90 THEN s[i] + 32 ELSE s[i]]

\* strings.EqualFold on ASCII.
EqualFoldMutant(s, t) == s = t
EqualFold(s, t) == ToLower(s) = ToLower(t)

RECURSIVE TrimLeftSet(_, _)
TrimLeftSet(s, cut) ==
    IF s # <<>> /\ Head(s) \in cut THEN TrimLeftSet(Tail(s), cut) ELSE s

\* strings.TrimRight(s, cutset).
RECURSIVE TrimRight(_, _)
TrimRight(s, cut) ==
    IF s # <<>> /\ s[Len(s)] \in cut
    THEN TrimRight(SubSeq(s, 1, Len(s) - 1), cut) ELSE s

\* strings.TrimSpace.
TrimSpace(s) == TrimRight(TrimLeftSet(s, {9, 10, 11, 12, 13, 32}),
                          {9, 10, 11, 12, 13, 32})

\* strings.HasSuffix.
HasSuffix(s, suf) ==
    /\ Len(suf) <= Len(s)
    /\ SubSeq(s, Len(s) - Len(suf) + 1, Len(s)) = suf

\* s is a prefix of t.
IsPrefix(s, t) == Len(s) <= Len(t) /\ SubSeq(t, 1, Len(s)) = s

\* strings.IndexByte: the first index of c in s, 0 when there is none.
IndexByte(s, c) ==
    IF \E i \in 1..Len(s) : s[i] = c
    THEN CHOOSE i \in 1..Len(s) : s[i] = c /\ \A j \in 1..(i - 1) : s[j] # c
    ELSE 0

\* strings.SplitN(s, sep, 2) for a one-byte separator.
SplitN2(s, c) ==
    LET i == IndexByte(s, c)
    IN  IF i = 0 THEN <<s>>
        ELSE <<SubSeq(s, 1, i - 1), SubSeq(s, i + 1, Len(s))>>

\* strings.Split(s, sep) for a one-byte separator.
Split(s, c) ==
    LET P == {i \in 1..Len(s) : s[i] = c}
        ps == Sorted(P)
        m == Len(ps)
    IN  [k \in 1..(m + 1) |->
            SubSeq(s, IF k = 1 THEN 1 ELSE ps[k - 1] + 1,
                      IF k = m + 1 THEN Len(s) ELSE ps[k] - 1)]

\* strings.Join(l, sep).
Join(l, sep) ==
    Flatten([k \in 1..Len(l) |-> IF k = 1 THEN l[k] ELSE sep \o l[k]])

\* stripWhitespace (src/dkim/dkim.go:681): drops every unicode.IsSpace byte.
stripWhitespace(s) ==
    Flatten([i \in 1..Len(s) |-> IF IsSpace(s[i]) THEN <<>> ELSE <<s[i]>>])

(***************************************************************************)
(* Body canonicalization (src/dkim/canonical.go).                          *)
(***************************************************************************)

\* A fixCRLF that puts a CR in front of every LF.
fixCRLFMutant(b) ==
    Flatten([i \in 1..Len(b) |-> IF b[i] = 10 THEN <<13, b[i]>> ELSE <<b[i]>>])

\* fixCRLF: a CR is put in front of every LF that has none.
fixCRLF(b) ==
    Flatten([i \in 1..Len(b) |->
                IF b[i] = 10 /\ (i = 1 \/ b[i - 1] # 13)
                THEN <<13, b[i]>> ELSE <<b[i]>>])

\* A loop that holds back the last CRLF pair only.
KeepCRLFMutant(b, end) ==
    IF end >= 2 /\ b[end - 1] = 13 /\ b[end] = 10 THEN end - 2 ELSE end

\* The index "end" of simpleBodyCanonicalizer.Write once the trailing CRLF
\* pairs are held back.
RECURSIVE KeepCRLF(_, _)
KeepCRLF(b, end) ==
    IF end >= 2 /\ b[end - 1] = 13 /\ b[end] = 10
    THEN KeepCRLF(b, end - 2) ELSE end

\* A new simpleBodyCanonicalizer or relaxedBodyCanonicalizer.
CanonicalizeBody(mode) ==
    [mode |-> mode, crlfBuf |-> <<>>, wspBuf |-> <<>>, written |-> FALSE]

\* A Write that fixes the line ends of its input before it puts crlfBuf in
\* front of it.
SimpleWriteMutant(c, data) ==
    LET b == c.crlfBuf \o fixCRLF(data)
        e0 == IF Len(b) > 0 /\ b[Len(b)] = 13 THEN Len(b) - 1 ELSE Len(b)
        end == KeepCRLF(b, e0)
    IN  [c   |-> [c EXCEPT !.crlfBuf = SubSeq(b, end + 1, Len(b))],
         out |-> IF end > 0 THEN <<SubSeq(b, 1, end)>> ELSE <<>>,
         n   |-> Len(data)]

\* simpleBodyCanonicalizer.Write: the new state, the Write calls made on
\* the underlying writer, and the count it returns.
SimpleWrite(c, data) ==
    LET b == fixCRLF(c.crlfBuf \o data)
        e0 == IF Len(b) > 0 /\ b[Len(b)] = 13 THEN Len(b) - 1 ELSE Len(b)
        end == KeepCRLF(b, e0)
    IN  [c   |-> [c EXCEPT !.crlfBuf = SubSeq(b, end + 1, Len(b))],
         out |-> IF end > 0 THEN <<SubSeq(b, 1, end)>> ELSE <<>>,
         n   |-> Len(data)]

\* simpleBodyCanonicalizer.Close.
SimpleClose(c) ==
    [c   |-> [c EXCEPT !.crlfBuf = <<>>],
     out |-> (IF Len(c.crlfBuf) > 0 /\ c.crlfBuf[Len(c.crlfBuf)] = 13
              THEN <<c.crlfBuf>> ELSE <<>>) \o <<crlf>>]

\* The loop of relaxedBodyCanonicalizer.Write over b[i..]: st holds crlfBuf,
\* wspBuf and the bytes made canonical so far.
RECURSIVE RelaxedLoop(_, _, _)
RelaxedLoop(st, b, i) ==
    IF i > Len(b) THEN st
    ELSE LET ch == b[i]
         IN  IF ch = 32 \/ ch = 9
             THEN RelaxedLoop([st EXCEPT !.wspBuf = Append(@, ch)], b, i + 1)
             ELSE IF ch = 13 \/ ch = 10
             THEN RelaxedLoop([st EXCEPT !.wspBuf = <<>>,
                                         !.crlfBuf = Append(@, ch)], b, i + 1)
             ELSE RelaxedLoop(
                    [crlfBuf   |-> <<>>,
                     wspBuf    |-> <<>>,
                     canonical |-> st.canonical \o st.crlfBuf
                                     \o (IF Len(st.wspBuf) > 0 THEN <<32>> ELSE <<>>)
                                     \o <<ch>>], b, i + 1)

\* relaxedBodyCanonicalizer.Write.
RelaxedWrite(c, data) ==
    LET b == fixCRLF(data)
        st == RelaxedLoop([crlfBuf |-> c.crlfBuf, wspBuf |-> c.wspBuf,
                           canonical |-> <<>>], b, 1)
    IN  [c   |-> [c EXCEPT !.crlfBuf = st.crlfBuf, !.wspBuf = st.wspBuf,
                           !.written = c.written \/ Len(st.canonical) > 0],
         out |-> <<st.canonical>>,
         n   |-> Len(data)]

\* relaxedBodyCanonicalizer.Close.
RelaxedClose(c) ==
    [c |-> c, out |-> IF c.written THEN <<crlf>> ELSE <<>>]

CanonWrite(c, data) ==
    IF c.mode = "simple" THEN SimpleWrite(c, data) ELSE RelaxedWrite(c, data)

CanonClose(c) ==
    IF c.mode = "simple" THEN SimpleClose(c) ELSE RelaxedClose(c)

(***************************************************************************)
(* limitedWriter (src/dkim/canonical.go:172) in front of the body hasher.  *)
(***************************************************************************)

\* limitedWriter.Write with budget N: the new budget, the bytes forwarded to
\* the hasher, and the count and error it returns.  N < 0 stands for the
\* bare hasher (no limitedWriter).
LimitedWrite(N, b) ==
    IF N < 0 THEN [N |-> N, fwd |-> b, n |-> Len(b), err |-> "nil"]
    ELSE IF N <= 0 THEN [N |-> N, fwd |-> <<>>, n |-> Len(b), err |-> "nil"]
    ELSE LET cut == IF Len(b) > N THEN SubSeq(b, 1, N) ELSE b
             \* skipped is computed after b is cut: int(len(b)) - w.N = 0
             skipped == IF Len(b) > N THEN Len(cut) - N ELSE 0
         IN  [N |-> N - Len(cut), fwd |-> cut, n |-> Len(cut) + skipped,
              err |-> "nil"]

\* The writer verify hands to the body canonicalizer
\* (src/dkim/dkim.go:598): a limitedWriter when the l tag is present.
BodyWriterMutant(bodyLen) == IF bodyLen > 0 THEN bodyLen ELSE -1
BodyWriter(bodyLen) == IF bodyLen >= 0 THEN bodyLen ELSE -1

\* A sequence of Write calls applied to the limited hasher hw = [N, sum].
RECURSIVE HashWrites(_, _)
HashWrites(hw, outs) ==
    IF outs = <<>> THEN hw
    ELSE LET r == LimitedWrite(hw.N, Head(outs))
         IN  HashWrites([N |-> r.N, sum |-> hw.sum \o r.fwd], Tail(outs))

(***************************************************************************)
(* Errors (src/dkim/dkim.go:261-298).                                      *)
(***************************************************************************)

NoErr == [kind |-> "nil", msg |-> ""]
permFailError(m) == [kind |-> "perm", msg |-> m]
tempFailError(m) == [kind |-> "temp", msg |-> m]
failError(m) == [kind |-> "fail", msg |-> m]

\* An error of the caller's reader: neither of the three types above.
ReadError == [kind |-> "io", msg |-> "expected test error"]
\* io.EOF, which textproto returns when the header has no end.
EOFError == [kind |-> "io", msg |-> "EOF"]

\* In the bytes of a stream, the place where a Read of the caller's reader
\* returned no data and the error ReadError; the Reads after it go on.
ErrByte == -1
FailedRead == <<ErrByte>>

(***************************************************************************)
(* Header fields (src/header.go).                                          *)
(***************************************************************************)

\* The lines textproto.Reader.ReadLine returns for the bytes s followed by
\* the end of the stream: one per LF, without the LF and without one CR in
\* front of it, and the unterminated rest when it is not empty.  At a failed
\* Read bufio.Reader.ReadLine returns the bytes it holds as a line and drops
\* the error; it returns the error (failed) when it holds no byte.
ReadLines(s) ==
    LET ps == Sorted({i \in 1..Len(s) : s[i] \in {10, ErrByte}})
        m == Len(ps)
        from(k) == IF k = 1 THEN 1 ELSE ps[k - 1] + 1
        to(k) == IF k > m THEN Len(s)
                 ELSE IF s[ps[k]] = 10 /\ ps[k] > from(k) /\ s[ps[k] - 1] = 13
                 THEN ps[k] - 2
                 ELSE ps[k] - 1
        n == IF m = 0 THEN (IF Len(s) > 0 THEN 1 ELSE 0)
             ELSE IF ps[m] < Len(s) THEN m + 1 ELSE m
    IN  [k \in 1..n |->
            [l      |-> SubSeq(s, from(k), to(k)),
             next   |-> IF k > m THEN Len(s) + 1 ELSE ps[k] + 1,
             failed |-> IF k > m THEN FALSE
                        ELSE s[ps[k]] = ErrByte /\ ps[k] = from(k)]]

\* The fields made of the lines ls[1..last], where ss are the indices of
\* the lines that start a field: each line with CR LF put back.
HeaderFields(ls, ss, last) ==
    [j \in 1..Len(ss) |->
        Flatten([k \in 1..((IF j = Len(ss) THEN last ELSE ss[j + 1] - 1)
                              - ss[j] + 1) |->
                    ls[ss[j] + k - 1].l \o crlf])]

\* readHeader for the lines ls of s when line e is the first empty one
\* (e = 0: there is none and ReadLine ends with the error term; a failed
\* line: ReadLine returned the error of the reader).  A line that starts
\* with SP or HT continues the field before it, if there is one.
HeaderUpTo(s, term, ls, e) ==
    LET last == IF e = 0 THEN Len(ls) ELSE e - 1
    IN  [h    |-> HeaderFields(
                    ls,
                    Sorted({k \in 1..last :
                              IF k = 1 THEN TRUE ELSE ls[k].l[1] \notin {32, 9}}),
                    last),
         err  |-> IF e = 0 THEN term
                  ELSE IF ls[e].failed THEN ReadError ELSE NoErr,
         rest |-> IF e = 0 THEN <<>> ELSE SubSeq(s, ls[e].next, Len(s))]

\* The index of the first empty line of ls, 0 when there is none.
FirstEmpty(ls) ==
    LET E == {k \in 1..Len(ls) : Len(ls[k].l) = 0}
    IN  IF E = {} THEN 0 ELSE Nth(E, 1)

\* readHeader on a stream whose unread bytes are s and which then ends
\* with the error term: the fields h, the error, and the bytes left unread.
HeaderOfLines(s, term, ls) == HeaderUpTo(s, term, ls, FirstEmpty(ls))
readHeaderMutant(s, term) ==
    [HeaderOfLines(s, term, ReadLines(s)) EXCEPT !.err = NoErr]
readHeader(s, term) == HeaderOfLines(s, term, ReadLines(s))

\* writeHeader.
writeHeader(h) == Flatten(h) \o crlf

\* parseHeaderField.
parseHeaderField(s) ==
    LET kv == SplitN2(s, 58)
    IN  [k |-> TrimSpace(kv[1]),
         v |-> IF Len(kv) > 1 THEN TrimSpace(kv[2]) ELSE <<>>]

\* The map parseHeaderParams has built from the pairs before number stop:
\* a later pair with the same key overwrites an earlier one.
ParamsUpTo(pairs, stop) ==
    LET Good == {j \in 1..(stop - 1) : Len(SplitN2(pairs[j], 61)) = 2}
        key(j) == TrimSpace(SplitN2(pairs[j], 61)[1])
    IN  [k \in {key(j) : j \in Good} |->
            TrimSpace(SplitN2(pairs[
                CHOOSE j \in Good :
                    key(j) = k /\ \A i \in Good : key(i) = k => i <= j], 61)[2])]

\* parseHeaderParams for the pairs strings.Split returned: a pair without
\* "=" that is not blank is an error.
ParamsOfPairsMutant(pairs) ==
    [params |-> ParamsUpTo(pairs, Len(pairs) + 1), err |-> FALSE]
ParamsOfPairs(pairs) ==
    LET Bad == {j \in 1..Len(pairs) :
                  Len(SplitN2(pairs[j], 61)) # 2 /\ TrimSpace(pairs[j]) # <<>>}
    IN  [params |-> ParamsUpTo(pairs, IF Bad = {} THEN Len(pairs) + 1
                                      ELSE Nth(Bad, 1)),
         err    |-> Bad # {}]

\* parseHeaderParams: the map and whether an error is returned.
parseHeaderParams(s) == ParamsOfPairs(Split(s, 59))

\* The order of Go strings: byte-wise, a proper prefix first.
StringLess(a, b) ==
    \/ Len(a) < Len(b) /\ SubSeq(b, 1, Len(a)) = a
    \/ \E i \in 1..Min(Len(a), Len(b)) :
          /\ a[i] < b[i]
          /\ \A j \in 1..(i - 1) : a[j] = b[j]

\* sort.Strings on a set of distinct strings.
RECURSIVE SortStrings(_)
SortStrings(K) ==
    IF K = {} THEN <<>>
    ELSE LET least == CHOOSE k \in K : \A o \in K \ {k} : StringLess(k, o)
         IN  <<least>> \o SortStrings(K \ {least})

\* formatHeaderParams (src/header.go:106): "k=v;" joined by one space, the
\* keys sorted, "b" last.
formatHeaderParams(params) ==
    LET b == <<98>>
        keys == SortStrings(DOMAIN params \ {b})
                  \o (IF b \in DOMAIN params THEN <<b>> ELSE <<>>)
    IN  Join([j \in 1..Len(keys) |-> keys[j] \o <<61>> \o params[keys[j]] \o <<59>>],
             <<32>>)

\* headerPicker.Pick: the field picked for key when picked[key] fields of
\* that name were picked before (bottom-up), <<>> when none is left.
PickMutant(h, at, key) ==
    LET M == {i \in 1..Len(h) :
                ToLower(parseHeaderField(h[i]).k) = ToLower(key)}
    IN  IF M # {} THEN h[Nth(M, Cardinality(M))] ELSE <<>>
Pick(h, at, key) ==
    LET M == {i \in 1..Len(h) :
                ToLower(parseHeaderField(h[i]).k) = ToLower(key)}
    IN  IF Cardinality(M) > at
        THEN h[Nth(M, Cardinality(M) - at)]
        ELSE <<>>

(***************************************************************************)
(* Header canonicalization (src/dkim/canonical.go) and the helpers of the  *)
(* verifier (src/dkim/dkim.go).                                            *)
(***************************************************************************)

\* rxReduceWS.ReplaceAllString(s, " "): every run of SP, HT, CR, LF becomes
\* one space.
ReduceWS(s) ==
    LET ws(i) == s[i] \in {32, 9, 13, 10}
    IN  Flatten([i \in 1..Len(s) |->
                    IF ~ws(i) THEN <<s[i]>>
                    ELSE IF i = 1 \/ ~ws(i - 1) THEN <<32>>
                    ELSE <<>>])

\* relaxedCanonicalizer.CanonicalizeHeader.
RelaxedHeader(s) ==
    LET kv == SplitN2(s, 58)
        k == TrimSpace(ToLower(kv[1]))
        v == IF Len(kv) > 1 THEN TrimSpace(ReduceWS(kv[2])) ELSE <<>>
    IN  k \o <<58>> \o v \o crlf

\* canonicalizers[can].CanonicalizeHeader; the simple one returns s.
CanonicalizeHeader(can, s) == IF can = "relaxed" THEN RelaxedHeader(s) ELSE s

\* removeSignature: regexp (b\s*=)[^;]+ replaced by its first group.  A
\* match starts at a "b", runs over white space to "=" and then over at
\* least one byte up to the next ";"; the bytes after "=" are removed.
removeSignature(s) ==
    LET n == Len(s)
        rxSpace(c) == c \in {9, 10, 12, 13, 32}
        \* the index of "=" for a match starting at i, 0 when there is none
        eq(i) == IF s[i] # 98 THEN 0
                 ELSE LET E == {e \in (i + 1)..n :
                                  /\ s[e] = 61
                                  /\ \A j \in (i + 1)..(e - 1) : rxSpace(s[j])}
                      IN  IF E = {} THEN 0
                          ELSE LET e == Nth(E, 1)
                               IN  IF e < n /\ s[e + 1] # 59 THEN e ELSE 0
        Eqs == {eq(i) : i \in 1..n} \ {0}
        removed(p) == \E e \in Eqs :
                         /\ e < p
                         /\ \A j \in (e + 1)..p : s[j] # 59
    IN  Flatten([p \in 1..n |-> IF removed(p) THEN <<>> ELSE <<s[p]>>])

\* parseTagList.
parseTagList(s) ==
    LET tags == Split(s, 58)
    IN  [j \in 1..Len(tags) |-> stripWhitespace(tags[j])]

\* formatTagList (src/sign.go:236).
formatTagList(l) == Join(l, <<58>>)

\* "simple" and "relaxed" as bytes and back; any other name is "unknown".
CanonicalizationName(bytes) ==
    IF bytes = <<115, 105, 109, 112, 108, 101>> THEN "simple"
    ELSE IF bytes = <<114, 101, 108, 97, 120, 101, 100>> THEN "relaxed"
    ELSE "unknown"

CanonicalizationBytes(name) ==
    IF name = "relaxed" THEN <<114, 101, 108, 97, 120, 101, 100>>
    ELSE <<115, 105, 109, 112, 108, 101>>

\* parseCanonicalization.
parseCanonicalization(s) ==
    LET cans == SplitN2(stripWhitespace(s), 47)
    IN  [headerCan |-> IF cans[1] # <<>> THEN CanonicalizationName(cans[1])
                       ELSE "simple",
         bodyCan   |-> IF Len(cans) > 1 THEN CanonicalizationName(cans[2])
                       ELSE "simple"]

\* The value of a run of decimal digits.
RECURSIVE DigitsValue(_)
DigitsValue(d) ==
    IF d = <<>> THEN 0
    ELSE 10 * DigitsValue(SubSeq(d, 1, Len(d) - 1)) + (d[Len(d)] - 48)

\* strconv.ParseInt(s, 10, 64): an optional sign and at least one digit.
ParseInt(s) ==
    LET signed == Len(s) > 0 /\ s[1] \in {43, 45}
        d == IF signed THEN Tail(s) ELSE s
        ok == Len(d) > 0 /\ \A i \in 1..Len(d) : d[i] \in 48..57
    IN  [ok |-> ok,
         n  |-> IF ~ok THEN 0
                ELSE IF signed /\ s[1] = 45 THEN 0 - DigitsValue(d)
                ELSE DigitsValue(d)]

\* strconv.FormatInt(n, 10) for n >= 0.
RECURSIVE FormatInt(_)
FormatInt(n) ==
    IF n < 10 THEN <<48 + n>> ELSE FormatInt(n \div 10) \o <<48 + (n % 10)>>

\* parseTime: the seconds of the Unix time.
parseTime(s) == ParseInt(stripWhitespace(s))

(***************************************************************************)
(* Symbolic cryptography.  oracle[x] is the value whose base64 text is     *)
(* written with the opaque character 256 + x.                              *)
(***************************************************************************)

\* hash.Sum over the bytes written to the hasher.
Digest(alg, data) == [kind |-> "hash", key |-> "", alg |-> alg, data |-> data]

\* Signer.Sign(rand, hashed, hash) with the private key of the pair key.
Signature(key, hashed) ==
    [kind |-> "sig", key |-> key, alg |-> hashed.alg, data |-> hashed.data]

\* The bytes that decode from well-formed base64 text the message was not
\* given by a signer: no digest and no signature equals them.
Garbage == [kind |-> "none", key |-> "", alg |-> "", data |-> <<>>]

\* base64.StdEncoding.EncodeToString of oracle[x], a value of n bytes.
EncodeToString(x, n) ==
    [i \in 1..(4 * ((n + 2) \div 3)) |->
        IF i > 4 * ((n + 2) \div 3) - ((3 - (n % 3)) % 3) THEN 61 ELSE 256 + x]

IsBase64Char(c) ==
    c \in (65..90) \cup (97..122) \cup (48..57) \cup {43, 47}

\* The text body is written with one opaque character of the oracle orc.
IsOpaque(orc, body) ==
    /\ Len(body) > 0
    /\ \A i \in 1..Len(body) : body[i] = body[1]
    /\ body[1] > 256
    /\ body[1] - 256 \in DOMAIN orc

\* base64.StdEncoding.DecodeString of body followed by pad "=".
DecodePadded(orc, body, pad) ==
    [ok  |-> /\ (Len(body) + pad) % 4 = 0
             /\ pad > 0 => Len(body) > 0
             /\ IF IsOpaque(orc, body) THEN TRUE
                ELSE \A i \in 1..Len(body) : IsBase64Char(body[i]),
     val |-> IF IsOpaque(orc, body) THEN orc[body[1] - 256] ELSE Garbage]

\* base64.StdEncoding.DecodeString.
DecodeString(orc, t) ==
    IF Len(t) >= 2 /\ t[Len(t)] = 61 /\ t[Len(t) - 1] = 61
    THEN DecodePadded(orc, SubSeq(t, 1, Len(t) - 2), 2)
    ELSE IF Len(t) >= 1 /\ t[Len(t)] = 61
    THEN DecodePadded(orc, SubSeq(t, 1, Len(t) - 1), 1)
    ELSE DecodePadded(orc, t, 0)

\* decodeBase64String.
decodeBase64String(orc, s) == DecodeString(orc, stripWhitespace(s))

(***************************************************************************)
(* Error predicates and Verification records (src/dkim/dkim.go:261-325).   *)
(***************************************************************************)

IsPermFail(err) == err.kind = "perm"
IsTempFail(err) == err.kind = "temp"
isFail(err) == err.kind = "fail"

\* new(Verification); sig is not a field of the code: it records the index
\* of the signature the record was made for.
NewVerification(sig) ==
    [Domain |-> <<>>, Identifier |-> <<>>, HeaderKeys |-> <<>>,
     BodyLength |-> 0, Time |-> <<>>, Expiration |-> <<>>, Err |-> NoErr,
     sig |-> sig]

\* The tag names of a signature, as bytes.
TagA == <<97>>
TagB == <<98>>
TagBH == <<98, 104>>
TagC == <<99>>
TagD == <<100>>
TagH == <<104>>
TagI == <<105>>
TagL == <<108>>
TagQ == <<113>>
TagS == <<115>>
TagT == <<116>>
TagV == <<118>>
TagX == <<120>>

requiredTags == <<TagV, TagA, TagB, TagBH, TagD, TagH, TagS>>

\* "from", "sha1", "sha256", "rsa", "email", "dns/txt".
StrFrom == <<102, 114, 111, 109>>
StrSha1 == <<115, 104, 97, 49>>
StrSha256 == <<115, 104, 97, 50, 53, 54>>
StrRsa == <<114, 115, 97>>
StrEmail == <<101, 109, 97, 105, 108>>
QueryMethodDNSTXT == <<100, 110, 115, 47, 116, 120, 116>>

\* params[k] of a Go map: the zero value when k is not in it.
Has(params, k) == k \in DOMAIN params
Tag(params, k) == IF k \in DOMAIN params THEN params[k] ELSE <<>>

\* A key record as parsePublicKey returns it.
KeyRecord(key) ==
    [KeyAlgo |-> StrRsa, key |-> key,
     HashAlgos |-> [isNil |-> TRUE, list |-> <<>>],
     Services |-> [isNil |-> TRUE, list |-> <<>>],
     Flags |-> [isNil |-> TRUE, list |-> <<>>]]

\* The tag names of a key record that no signature has, and "DKIM1".
TagK == <<107>>
TagN == <<110>>
TagP == <<112>>
StrDKIM1 == <<68, 75, 73, 77, 49>>

\* The bytes of the SubjectPublicKeyInfo of an RSA public key with a modulus
\* of the given number of bits, and of a public key of another kind.
RSAPublicKey(key, bits) == [kind |-> "rsa", key |-> key, bits |-> bits]
ECPublicKey == [kind |-> "ecdsa", key |-> "", bits |-> 256]

\* rsa.PublicKey.Size: the modulus size in bytes.
Size(pub) == (pub.bits + 7) \div 8

\* A []string that is nil when the tag k is not in params.
TagListOf(params, k) ==
    IF Has(params, k)
    THEN [isNil |-> FALSE, list |-> parseTagList(Tag(params, k))]
    ELSE [isNil |-> TRUE, list |-> <<>>]

\* return nil, err of the key query.
QueryFailedMutant(e) ==
    [err |-> [kind |-> "other", msg |-> e.msg], found |-> FALSE,
     res |-> KeyRecord("")]
QueryFailed(e) == [err |-> e, found |-> FALSE, res |-> KeyRecord("")]

\* parsePublicKey from the k tag on (src/query.go:90-135): b is the decoded
\* p tag.
parseKeyData(params, b) ==
    LET services == TagListOf(params, TagS)
    IN  IF Tag(params, TagK) \notin {StrRsa, <<>>}
        THEN QueryFailed(permFailError("unsupported key algorithm"))
        ELSE IF b.kind \notin {"rsa", "ecdsa"}
        THEN QueryFailed(permFailError("key syntax error"))
        ELSE IF b.kind # "rsa"
        THEN QueryFailed(permFailError("key syntax error: not an RSA public key"))
        ELSE IF Size(b) * 8 < 1024
        THEN QueryFailed(permFailError("key is too short"))
        ELSE [err |-> NoErr, found |-> TRUE,
              res |-> [KeyAlgo |-> StrRsa, key |-> b.key,
                       HashAlgos |-> TagListOf(params, TagH),
                       Services |->
                           IF \E j \in 1..Len(services.list) :
                                  services.list[j] = <<42>>
                           THEN [isNil |-> TRUE, list |-> <<>>]
                           ELSE services,
                       Flags |-> TagListOf(params, TagT)]]

\* parsePublicKey(s); keys is the oracle of the base64 text of the p tag.
parsePublicKey(s, keys) ==
    LET pp == parseHeaderParams(s)
        b == DecodeString(keys, Tag(pp.params, TagP))
    IN  IF pp.err
        THEN QueryFailed(permFailError("key syntax error"))
        ELSE IF Has(pp.params, TagV) /\ Tag(pp.params, TagV) # StrDKIM1
        THEN QueryFailed(permFailError("incompatible public key version"))
        ELSE IF ~Has(pp.params, TagP)
        THEN QueryFailed(permFailError(
                             "key syntax error: missing public key data"))
        ELSE IF Tag(pp.params, TagP) = <<>>
        THEN QueryFailed(permFailError("key revoked"))
        ELSE IF ~b.ok
        THEN QueryFailed(permFailError("key syntax error"))
        ELSE parseKeyData(pp.params, b.val)

\* queryDNSTXT for domain and selector against the TXT records dns of the
\* environment: each names the domain and selector it answers for and how
\* the lookup ends ("nil": with the text txt, whose p tag is written with
\* the oracle keys; "temp": with a temporary network error; "perm": with
\* another error).  A name nobody answers for does not exist.
query(dns, domain, selector) ==
    LET M == {j \in 1..Len(dns) :
                dns[j].domain = domain /\ dns[j].selector = selector}
        rec == dns[Nth(M, 1)]
    IN  IF M = {}
        THEN QueryFailed(permFailError("no key for signature"))
        ELSE IF rec.fail = "temp"
        THEN QueryFailed(tempFailError("key unavailable"))
        ELSE IF rec.fail = "perm"
        THEN QueryFailed(permFailError("no key for signature"))
        ELSE parsePublicKey(rec.txt, rec.keys)

\* res.Verifier.Verify(hash, hashed, sig): rsa.VerifyPKCS1v15.
VerifierVerify(res, hashed, sig) ==
    sig = Signature(res.key, hashed)

(***************************************************************************)
(* verify (src/dkim/dkim.go:433), in three parts: the checks made before   *)
(* the body is read, the body hash, and the header hash with the signature *)
(* check.                                                                  *)
(***************************************************************************)

\* What verify knows when it turns to the body: the Verification so far,
\* the error it returns without reading the body (NoErr when it reads it),
\* the key record, the canonicalizations, the body length, and the decoded
\* bh and b.  lookups is not a value of the code: it counts the calls of
\* query verify has made.
ChecksResult(v, e, res, cans, bodyLen, bodyHashed, sigBytes) ==
    [verif |-> v, err |-> e, res |-> res,
     headerCan |-> cans.headerCan, bodyCan |-> cans.bodyCan,
     bodyLen |-> bodyLen, bodyHashed |-> bodyHashed, sig |-> sigBytes,
     lookups |-> 0]

\* return verif, err before the body is read.
ChecksFailed(v, e) ==
    ChecksResult(v, e, KeyRecord(""),
                 [headerCan |-> "simple", bodyCan |-> "simple"], -1,
                 Garbage, Garbage)

\* verify, lines 575-595, with the l, bh and b tags parsed.
verifyParsed(v, hasL, l, bodyHashed, sigBytes, res, cans) ==
    IF hasL /\ ~l.ok
    THEN ChecksFailed(v, permFailError("malformed body length"))
    ELSE IF hasL /\ l.n < 0
    THEN ChecksFailed(v, permFailError("malformed body length: negative value"))
    ELSE IF ~bodyHashed.ok
    THEN ChecksFailed([v EXCEPT !.BodyLength = IF hasL THEN l.n ELSE -1],
                      permFailError("malformed body hash"))
    ELSE IF ~sigBytes.ok
    THEN ChecksFailed([v EXCEPT !.BodyLength = IF hasL THEN l.n ELSE -1],
                      permFailError("malformed signature"))
    ELSE ChecksResult([v EXCEPT !.BodyLength = IF hasL THEN l.n ELSE -1],
                      NoErr, res, cans, IF hasL THEN l.n ELSE -1,
                      bodyHashed.val, sigBytes.val)

\* verify, lines 575-595: the l, bh and b tags.
verifyBodyLen(v, params, orc, res, cans) ==
    verifyParsed(v, Has(params, TagL),
                 ParseInt(stripWhitespace(Tag(params, TagL))),
                 decodeBase64String(orc, Tag(params, TagBH)),
                 decodeBase64String(orc, Tag(params, TagB)),
                 res, cans)

\* verify, lines 516-573: the a tag against the key record, the c tag.
verifyAlgos(v, params, orc, res) ==
    LET algos == SplitN2(stripWhitespace(Tag(params, TagA)), 45)
        cans == parseCanonicalization(Tag(params, TagC))
    IN  IF Len(algos) # 2
        THEN ChecksFailed(v, permFailError("malformed algorithm name"))
        ELSE IF ~res.HashAlgos.isNil
                /\ ~\E j \in 1..Len(res.HashAlgos.list) :
                        res.HashAlgos.list[j] = algos[2]
        THEN ChecksFailed(v, permFailError("inappropriate hash algorithm"))
        ELSE IF algos[2] = StrSha1
        THEN ChecksFailed(v, permFailError("hash algorithm too weak"))
        ELSE IF algos[2] # StrSha256
        THEN ChecksFailed(v, permFailError("unsupported hash algorithm"))
        ELSE IF res.KeyAlgo # algos[1]
        THEN ChecksFailed(v, permFailError("inappropriate key algorithm"))
        ELSE IF ~res.Services.isNil
                /\ ~\E j \in 1..Len(res.Services.list) :
                        res.Services.list[j] = StrEmail
        THEN ChecksFailed(v, permFailError("inappropriate service"))
        ELSE IF cans.headerCan = "unknown"
        THEN ChecksFailed(v, permFailError(
                               "unsupported header canonicalization algorithm"))
        ELSE IF cans.bodyCan = "unknown"
        THEN ChecksFailed(v, permFailError(
                               "unsupported body canonicalization algorithm"))
        ELSE verifyBodyLen(v, params, orc, res, cans)

\* The calls of query the loop of lines 499-508 makes for the methods of
\* the q tag: one for the first method of queryMethods, after which it
\* breaks.
LookupsMutant(methods) ==
    Cardinality({j \in 1..Len(methods) : methods[j] = QueryMethodDNSTXT})
Lookups(methods) ==
    IF \E j \in 1..Len(methods) : methods[j] = QueryMethodDNSTXT THEN 1 ELSE 0

\* The result r of verify with n calls of query counted.
Looked(r, n) == [r EXCEPT !.lookups = n]

\* verify, lines 493-514: the query for the public key with the first
\* known method of the q tag.
verifyKey(v, params, orc, dns) ==
    LET methods == IF Has(params, TagQ) THEN parseTagList(Tag(params, TagQ))
                   ELSE <<QueryMethodDNSTXT>>
        known == \E j \in 1..Len(methods) : methods[j] = QueryMethodDNSTXT
        q == query(dns, v.Domain, stripWhitespace(Tag(params, TagS)))
    IN  IF known /\ q.err # NoErr
        THEN Looked(ChecksFailed(v, q.err), Lookups(methods))
        ELSE IF ~known
        THEN Looked(ChecksFailed(v, permFailError(
                                       "unsupported public key query method")),
                    Lookups(methods))
        ELSE Looked(verifyAlgos(v, params, orc, q.res), Lookups(methods))

\* verify, lines 475-491: the t and x tags.
verifyTimes(v, params, orc, dns, nowSec) ==
    LET t == parseTime(Tag(params, TagT))
        x == parseTime(Tag(params, TagX))
        vt == IF Has(params, TagT) THEN [v EXCEPT !.Time = <<t.n>>] ELSE v
    IN  IF Has(params, TagT) /\ ~t.ok
        THEN ChecksFailed(v, permFailError("malformed time"))
        ELSE IF Has(params, TagX) /\ ~x.ok
        THEN ChecksFailed(vt, permFailError("malformed expiration time"))
        ELSE IF Has(params, TagX) /\ nowSec > x.n
        THEN ChecksFailed([vt EXCEPT !.Expiration = <<x.n>>],
                          permFailError("signature has expired"))
        ELSE verifyKey(IF Has(params, TagX)
                       THEN [vt EXCEPT !.Expiration = <<x.n>>] ELSE vt,
                       params, orc, dns)

\* The condition on the i tag (src/dkim/dkim.go:455): it ends with "@" and
\* the domain or with "." and the domain.
InDomainMutant(id, domain) == HasSuffix(id, domain)
InDomain(id, domain) ==
    HasSuffix(id, <<64>> \o domain) \/ HasSuffix(id, <<46>> \o domain)

\* verify, lines 447-473: the required tags, the i tag, the h tag.
verifyIdentity(v, params, orc, dns, nowSec) ==
    LET Identifier == IF Has(params, TagI)
                      THEN stripWhitespace(Tag(params, TagI))
                      ELSE <<64>> \o v.Domain
        headerKeys == parseTagList(Tag(params, TagH))
    IN  IF \E j \in 1..Len(requiredTags) : ~Has(params, requiredTags[j])
        THEN ChecksFailed(v, permFailError("signature missing required tag"))
        ELSE IF Has(params, TagI) /\ ~InDomain(Identifier, v.Domain)
        THEN ChecksFailed([v EXCEPT !.Identifier = Identifier],
                          permFailError("domain mismatch"))
        ELSE IF ~\E j \in 1..Len(headerKeys) : ToLower(headerKeys[j]) = StrFrom
        THEN ChecksFailed([v EXCEPT !.Identifier = Identifier],
                          permFailError("From field not signed"))
        ELSE verifyTimes([v EXCEPT !.Identifier = Identifier,
                                   !.HeaderKeys = headerKeys],
                         params, orc, dns, nowSec)

\* verify up to the body hash (lines 433-595) for the signature number sig
\* with value sigValue.  orc is the base64 oracle, dns the published key
\* records, nowSec the clock.
verifyChecks(sig, sigValue, orc, dns, nowSec) ==
    LET pp == parseHeaderParams(sigValue)
    IN  IF pp.err
        THEN ChecksFailed(NewVerification(sig),
                          permFailError("malformed signature tags"))
        ELSE IF Tag(pp.params, TagV) # <<49>>
        THEN ChecksFailed(NewVerification(sig),
                          permFailError("incompatible signature version"))
        ELSE verifyIdentity([NewVerification(sig) EXCEPT
                               !.Domain = stripWhitespace(Tag(pp.params, TagD))],
                            pp.params, orc, dns, nowSec)

\* The header hash input of lines 614-637: the picked fields in the order of
\* headerKeys, canonicalized, then the signature field without its b value.
RECURSIVE PickAll(_, _, _, _)
PickAll(h, can, keys, picked) ==
    IF keys = <<>> THEN <<>>
    ELSE LET key == ToLower(Head(keys))
             at == IF key \in DOMAIN picked THEN picked[key] ELSE 0
             kv == Pick(h, at, key)
             np == [k \in DOMAIN picked \cup {key} |->
                      IF k = key THEN at + 1 ELSE picked[k]]
         IN  IF kv = <<>> THEN PickAll(h, can, Tail(keys), picked)
             ELSE CanonicalizeHeader(can, kv) \o PickAll(h, can, Tail(keys), np)

\* An empty map[string]int and an empty map[string]string.
NoPicked == [k \in {} |-> 0]
NoParams == [k \in {} |-> <<>>]

\* verify after the body was copied and the canonicalizer closed (lines
\* 610-645): the comparison that fails, "ok" when none does.  c is what
\* verifyChecks returned, sum the bytes the body hasher received.
verifyCompare(c, h, sigField, sum) ==
    IF Digest("sha256", sum) # c.bodyHashed THEN "bodyhash"
    ELSE IF ~VerifierVerify(
                c.res,
                Digest("sha256",
                       PickAll(h, c.headerCan, c.verif.HeaderKeys, NoPicked)
                         \o TrimRight(CanonicalizeHeader(
                                          c.headerCan,
                                          removeSignature(sigField)),
                                      {13, 10})),
                c.sig)
    THEN "signature"
    ELSE "ok"

\* The error verify returns after the comparisons (lines 610-645).
verifyFinishMutant(outcome) ==
    IF outcome = "bodyhash" THEN failError("body hash did not verify")
    ELSE NoErr
verifyFinish(outcome) ==
    IF outcome = "bodyhash" THEN failError("body hash did not verify")
    ELSE IF outcome = "signature" THEN failError("signature did not verify")
    ELSE NoErr

(***************************************************************************)
(* Sign (src/sign.go).                                                     *)
(***************************************************************************)

\* formatSignature: "DKIM-Signature: " and the tags, cut into pieces of 75
\* bytes joined by CR LF SP.
headerFieldName == <<68, 75, 73, 77, 45, 83, 105, 103, 110, 97, 116, 117, 114, 101>>

formatSignature(params) ==
    LET sig == headerFieldName \o <<58, 32>> \o formatHeaderParams(params) \o crlf
        n == Len(sig)
        pieces == (n + 74) \div 75
    IN  [p \in 1..(n + 3 * (pieces - 1)) |->
            LET blk == (p - 1) \div 78
                off == (p - 1) % 78
            IN  IF off < 75 THEN sig[75 * blk + off + 1]
                ELSE <<13, 10, 32>>[off - 74]]

(***************************************************************************)
(* The folding formatter of the later header.go (src/unnamed/part_003).    *)
(***************************************************************************)

\* A fold that keeps one byte less on every line after the first.
foldHeaderFieldMutant(kv) ==
    IF Len(kv) <= 75 THEN kv
    ELSE SubSeq(kv, 1, 75)
            \o Flatten([q \in 1..((Len(kv) - 75 + 73) \div 74) |->
                          <<13, 10, 32>>
                              \o SubSeq(kv, 75 + 74 * (q - 1) + 1,
                                        Min(Len(kv), 75 + 74 * q))])

\* foldHeaderField: kv read 75 bytes at a time, "\r\n " written before
\* every piece but the first.
foldHeaderField(kv) ==
    Flatten([q \in 1..((Len(kv) + 74) \div 75) |->
                (IF q = 1 THEN <<>> ELSE <<13, 10, 32>>)
                    \o SubSeq(kv, 75 * (q - 1) + 1, Min(Len(kv), 75 * q))])

\* The loop of wrapHeaders over headers[i..]: avail is the room left on the
\* line, s what was written.
RECURSIVE WrapLoop(_, _, _, _)
WrapLoop(headers, i, avail, s) ==
    IF i > Len(headers) THEN s
    ELSE IF avail < Len(headers[i]) + 1
    THEN WrapLoop(headers, i + 1, 75 - (Len(headers[i]) + 1),
                  s \o crlf \o <<32>> \o headers[i]
                    \o (IF i = Len(headers) THEN <<59>> ELSE <<58>>))
    ELSE WrapLoop(headers, i + 1, avail - (Len(headers[i]) + 1),
                  s \o headers[i]
                    \o (IF i = Len(headers) THEN <<59>> ELSE <<58>>))

\* wrapHeaders: "h=" and the header names, a fold put in front of a name
\* that has no room left.
wrapHeaders(values) == WrapLoop(Split(values, 58), 1, 75 - 3, <<104, 61>>)

\* The order of sort.Slice in formatHeaderParams: shorter values first,
\* the keys of values of one length in the order of Go strings.
ParamLess(params, a, b) ==
    IF Len(params[a]) = Len(params[b]) THEN StringLess(a, b)
    ELSE Len(params[a]) < Len(params[b])

RECURSIVE SortParams(_, _)
SortParams(params, K) ==
    IF K = {} THEN <<>>
    ELSE LET least == CHOOSE k \in K : \A o \in K \ {k} : ParamLess(params, k, o)
         IN  <<least>> \o SortParams(params, K \ {least})

\* One tag written by the loop of formatHeaderParams: reset says that a
\* line is started for it, avail is the room on its line.
FoldedParam(k, v, reset, avail) ==
    (IF reset THEN crlf ELSE <<>>) \o <<32>>
        \o (IF avail - (Len(k) + Len(v) + 3) < 0
            THEN (IF k = <<104>> THEN wrapHeaders(v)
                  ELSE foldHeaderField(k \o <<61>> \o v \o <<59>>))
            ELSE k \o <<61>> \o v \o <<59>>)

\* The loop of formatHeaderParams over keys[j..].
RECURSIVE FoldedLoop(_, _, _, _, _)
FoldedLoop(params, keys, j, avail, s) ==
    IF j > Len(keys) THEN s
    ELSE IF avail < Len(keys[j]) + Len(params[keys[j]]) + 3 \/ keys[j] = <<98>>
    THEN FoldedLoop(params, keys, j + 1,
                    75 - (Len(keys[j]) + Len(params[keys[j]]) + 3),
                    s \o FoldedParam(keys[j], params[keys[j]], TRUE, 75))
    ELSE FoldedLoop(params, keys, j + 1,
                    avail - (Len(keys[j]) + Len(params[keys[j]]) + 3),
                    s \o FoldedParam(keys[j], params[keys[j]], FALSE, avail))

\* formatHeaderParams of src/unnamed/part_003:133: the tags by the length
\* of their values, "b" last, folded.
FoldedHeaderParams(params) ==
    FoldedLoop(params,
               SortParams(params, DOMAIN params \ {<<98>>})
                  \o (IF <<98>> \in DOMAIN params THEN <<<<98>>>> ELSE <<>>),
               1, 75 - Len(headerFieldName) - 2, <<>>)

\* formatSignature of src/unnamed/part_017:172, over this formatter.
FoldedSignature(params) ==
    headerFieldName \o <<58, 32>> \o FoldedHeaderParams(params) \o crlf

(***************************************************************************)
(* DKIMSignature and its tags (src/dkim/dkim.go:13-243).  A tag is         *)
(* [TagLen, TagAndValue, Delimiter, base64]; Idx is kept by the callers.   *)
(***************************************************************************)

\* NewDKIMTagPlain, NewDKIMTagDelim with its values joined, NewDKIMTagBase64.
NewDKIMTagPlain(tag, value) ==
    [TagLen |-> Len(tag), TagAndValue |-> tag \o <<61>> \o value,
     Delimiter |-> <<>>, base64 |-> FALSE]
NewDKIMTagDelim(tag, values, delimiter) ==
    [TagLen |-> Len(tag), TagAndValue |-> tag \o <<61>> \o Join(values, delimiter),
     Delimiter |-> delimiter, base64 |-> FALSE]
NewDKIMTagBase64(tag, value) ==
    [TagLen |-> Len(tag), TagAndValue |-> tag \o <<61>> \o value,
     Delimiter |-> <<>>, base64 |-> TRUE]

\* strings.Index(s[idx:], sep): the bytes before the first sep, -1 if none.
IndexFrom(s, idx, sep) ==
    LET At == {i \in 0..(Len(s) - idx - Len(sep)) :
                  SubSeq(s, idx + i + 1, idx + i + Len(sep)) = sep}
    IN  IF At = {} THEN -1 ELSE CHOOSE i \in At : \A o \in At : i <= o

\* DKIMTagDelim.NextBreak and DKIMTagBase64.NextBreak.
NextBreak(t, idx, max) ==
    IF idx = 0 THEN t.TagLen
    ELSE IF idx = t.TagLen THEN t.TagLen + 1
    ELSE IF t.base64 THEN Min(max, Len(t.TagAndValue))
    ELSE IF t.Delimiter = <<>> THEN Len(t.TagAndValue)
    ELSE IF IndexFrom(t.TagAndValue, idx, t.Delimiter) = -1
    THEN Len(t.TagAndValue)
    ELSE IF IndexFrom(t.TagAndValue, idx, t.Delimiter) = 0
    THEN idx + Len(t.Delimiter)
    ELSE IndexFrom(t.TagAndValue, idx, t.Delimiter) + idx

\* The loop of GetString: the last break that is not after end_max.
RECURSIVE BreakLoop(_, _, _)
BreakLoop(t, end, end_max) ==
    IF end < end_max /\ NextBreak(t, end, end_max) <= end_max
    THEN BreakLoop(t, NextBreak(t, end, end_max), end_max)
    ELSE end

\* GetString: the bytes taken, the new Idx, and ok.
GetString(t, Idx, limit) ==
    IF Len(t.TagAndValue) - Idx <= limit
    THEN [chars |-> SubSeq(t.TagAndValue, Idx + 1, Len(t.TagAndValue)),
          Idx |-> Len(t.TagAndValue), ok |-> TRUE]
    ELSE IF Idx < BreakLoop(t, Idx, Idx + limit)
    THEN [chars |-> SubSeq(t.TagAndValue, Idx + 1, BreakLoop(t, Idx, Idx + limit)),
          Idx |-> BreakLoop(t, Idx, Idx + limit), ok |-> TRUE]
    ELSE [chars |-> <<>>, Idx |-> Idx, ok |-> FALSE]

\* What AddTag writes for the bytes it got: them, and ";" once the tag is done.
TagWritten(sig, t, chars, Idx) ==
    [Buf |-> sig.Buf \o chars
                \o (IF Idx = Len(t.TagAndValue) THEN <<59>> ELSE <<>>),
     LineLen |-> sig.LineLen + Len(chars)
                    + (IF Idx = Len(t.TagAndValue) THEN 1 ELSE 0)]

\* The loop of DKIMSignature.AddTag from Idx on.
RECURSIVE AddTagLoop(_, _, _)
AddTagLoop(sig, t, Idx) ==
    IF Idx = Len(t.TagAndValue) THEN sig
    ELSE IF 80 - sig.LineLen - 1 - 2 <= 0
    THEN AddTagLoop([Buf |-> sig.Buf \o <<13, 10, 32>>, LineLen |-> 1], t, Idx)
    ELSE IF GetString(t, Idx, 80 - sig.LineLen - 1 - 2).ok
    THEN AddTagLoop(TagWritten(sig, t,
                               GetString(t, Idx, 80 - sig.LineLen - 1 - 2).chars,
                               GetString(t, Idx, 80 - sig.LineLen - 1 - 2).Idx),
                    t, GetString(t, Idx, 80 - sig.LineLen - 1 - 2).Idx)
    ELSE IF sig.LineLen > 1
    THEN AddTagLoop([Buf |-> sig.Buf \o <<13, 10, 32>>, LineLen |-> 1], t, Idx)
    ELSE TagWritten(sig, t, SubSeq(t.TagAndValue, Idx + 1, Len(t.TagAndValue)),
                    Len(t.TagAndValue))

\* DKIMSignature.AddTag.
AddTag(sig, t) == AddTagLoop(sig, t, 0)

\* NewDKIMSignature.
NewDKIMSignature ==
    [Buf |-> headerFieldName \o <<58, 32>>, LineLen |-> Len(headerFieldName) + 2]

\* The number of bytes of a digest.
HashSize(alg) == IF alg = "sha1" THEN 20 ELSE 32

\* The body hash step of Sign and of verify: the bytes the hasher behind a
\* limitedWriter of budget N receives when the body arrives in the writes
\* "chunks" and the canonicalizer is then closed.
RECURSIVE CopyBody(_, _, _)
CopyBody(can, hw, chunks) ==
    IF chunks = <<>> THEN HashWrites(hw, CanonClose(can).out).sum
    ELSE LET w == CanonWrite(can, Head(chunks))
         IN  CopyBody(w.c, HashWrites(hw, w.out), Tail(chunks))

\* A canonicalization of SignOptions, "simple" when it is left empty.
DefaultSimpleMutant(can) == "simple"
DefaultSimple(can) == IF can = "" THEN "simple" ELSE can

\* What Sign returns when it fails: the error, no byte written to w, and
\* the number of bytes read from r (none before readHeader is called).
SignFailed(err, orc) ==
    [err |-> err, out |-> <<>>, oracle |-> orc, read |-> 0]

\* The tags of the signature but b (src/sign.go:142-175).
SignParams(headerKeys, hashAlgo, options, nowSec, orc) ==
    (TagV :> <<49>>)
    @@ (TagA :> (StrRsa \o <<45>>
                   \o (IF hashAlgo = "sha1" THEN StrSha1 ELSE StrSha256)))
    @@ (TagBH :> EncodeToString(Len(orc) + 1, HashSize(hashAlgo)))
    @@ (TagC :> (CanonicalizationBytes(DefaultSimple(options.HeaderCanonicalization))
                   \o <<47>>
                   \o CanonicalizationBytes(DefaultSimple(options.BodyCanonicalization))))
    @@ (TagD :> options.Domain)
    @@ (TagS :> options.Selector)
    @@ (TagT :> FormatInt(nowSec))
    @@ (TagH :> formatTagList(headerKeys))
    @@ (IF options.Identifier # <<>>
        THEN (TagI :> options.Identifier) ELSE NoParams)
    @@ (IF ~options.QueryMethods.isNil
        THEN (TagQ :> formatTagList(options.QueryMethods.list)) ELSE NoParams)
    @@ (IF options.Expiration # 0
        THEN (TagX :> FormatInt(options.Expiration)) ELSE NoParams)

\* Sign from "Hash and sign headers" on (src/sign.go:177-216).
SignHeader(h, body, bodyHashed, headerKeys, params, hashAlgo, options, orc) ==
    LET headerCan == DefaultSimple(options.HeaderCanonicalization)
        hashed == Digest(hashAlgo,
                         PickAll(h, headerCan, headerKeys, NoPicked)
                           \o TrimRight(
                                CanonicalizeHeader(
                                  headerCan,
                                  formatSignature((TagB :> <<>>) @@ params)),
                                {13, 10}))
        sigField == formatSignature(
                      (TagB :> EncodeToString(Len(orc) + 2, options.Signer.size))
                        @@ params)
    IN  [err |-> NoErr,
         out |-> sigField \o writeHeader(h) \o body,
         oracle |-> orc \o <<bodyHashed, Signature(options.Signer.key, hashed)>>,
         read |-> Len(Flatten(h)) + Len(body)]

\* Sign from "Read header" on (src/sign.go:121-175): rh is what readHeader
\* returned; the body reaches the canonicalizer in writes of chunk bytes.
SignBody(rh, chunk, hashAlgo, options, nowSec, orc) ==
    LET chunks == [j \in 1..((Len(rh.rest) + chunk - 1) \div chunk) |->
                     SubSeq(rh.rest, chunk * (j - 1) + 1,
                            Min(chunk * j, Len(rh.rest)))]
        bodyHashed == Digest(hashAlgo,
                             CopyBody(CanonicalizeBody(
                                        DefaultSimple(options.BodyCanonicalization)),
                                      [N |-> -1, sum |-> <<>>], chunks))
        headerKeys == IF ~options.HeaderKeys.isNil THEN options.HeaderKeys.list
                      ELSE [j \in 1..Len(rh.h) |-> parseHeaderField(rh.h[j]).k]
    IN  IF rh.err # NoErr THEN SignFailed(rh.err, orc)
        ELSE SignHeader(rh.h, rh.rest, bodyHashed, headerKeys,
                        SignParams(headerKeys, hashAlgo, options, nowSec, orc),
                        hashAlgo, options, orc)

\* An error made with fmt.Errorf.
Errorf(m) == [kind |-> "other", msg |-> m]

\* A nil *SignOptions.
NilOptions == [isNil |-> TRUE]

\* Sign: the error, the bytes written to w, the oracle orc extended by the
\* digest and the signature whose base64 texts the new signature field
\* carries, and the number of bytes read from r.  r yields the bytes msg
\* and then EOF; io.Copy and readHeader read it to its end.
Sign(msg, chunk, options, nowSec, orc) ==
    IF options = NilOptions
    THEN SignFailed(Errorf("dkim: no options specified"), orc)
    ELSE IF options.Domain = <<>>
    THEN SignFailed(Errorf("dkim: no domain specified"), orc)
    ELSE IF options.Selector = <<>>
    THEN SignFailed(Errorf("dkim: no selector specified"), orc)
    ELSE IF options.Signer.type = "nil"
    THEN SignFailed(Errorf("dkim: no signer specified"), orc)
    ELSE IF DefaultSimple(options.HeaderCanonicalization) \notin {"simple", "relaxed"}
    THEN SignFailed(Errorf("dkim: unknown header canonicalization"), orc)
    ELSE IF DefaultSimple(options.BodyCanonicalization) \notin {"simple", "relaxed"}
    THEN SignFailed(Errorf("dkim: unknown body canonicalization"), orc)
    ELSE IF options.Signer.type # "rsa"
    THEN SignFailed(Errorf("dkim: unsupported key algorithm"), orc)
    ELSE IF options.Hash \notin {"", "sha1", "sha256"}
    THEN SignFailed(Errorf("dkim: unsupported hash algorithm"), orc)
    ELSE IF /\ ~options.HeaderKeys.isNil
            /\ ~\E j \in 1..Len(options.HeaderKeys.list) :
                    ToLower(options.HeaderKeys.list[j]) = StrFrom
    THEN SignFailed(Errorf("dkim: the From header field must be signed"), orc)
    ELSE [SignBody(readHeader(msg, EOFError), chunk,
                   IF options.Hash = "sha1" THEN "sha1" ELSE "sha256",
                   options, nowSec, orc)
            EXCEPT !.read = Len(msg)]

(***************************************************************************)
(* State.                                                                  *)
(***************************************************************************)

VARIABLES
    world,          \* the environment of a verification: oracle, dns, now,
                    \* and the options of the caller
    rd,             \* the caller's reader: the Read results to come
    bufr,           \* the bytes bufio.Reader holds unread
    pc,             \* where Verify (or Sign then Verify) stands
    h,              \* the header fields readHeader returned
    signatures,     \* the signature fields found: [i, v]
    dchunk,         \* the bytes io.Copy is writing to the pipes
    dj,             \* the number of pipes written to, closed or collected
    pw,             \* the pipes: [data, busy, closed]
    wk,             \* the per-signature verifications in progress
    chans,          \* the result channels, of capacity 1
    verifications,  \* the list Verify returns
    retErr,         \* the error Verify returns
    bodyRead,       \* the bytes read from the caller's reader after the header
    signing         \* the call of Sign: options, message, result

vars == <<world, rd, bufr, pc, h, signatures, dchunk, dj, pw, wk, chans,
          verifications, retErr, bodyRead, signing>>

\* The fields of a worker before verify has run for it.
NewWorker(i) ==
    [pc |-> "start",
     c |-> [verif |-> NewVerification(i), err |-> NoErr, res |-> KeyRecord(""),
            headerCan |-> "simple", bodyCan |-> "simple", bodyLen |-> -1,
            bodyHashed |-> Garbage, sig |-> Garbage, lookups |-> 0],
     can |-> CanonicalizeBody("simple"),
     hw |-> [N |-> -1, sum |-> <<>>],
     err |-> NoErr,
     hasCan |-> FALSE,
     seen |-> <<>>,
     writes |-> 0,
     canOut |-> <<>>,
     outcome |-> "none",
     rank |-> 0]

NewPipe == [data |-> <<>>, busy |-> FALSE, closed |-> FALSE]

\* The state of Verify before its first step, for the reader r and world w.
VerifyInit(r, w) ==
    /\ world = w
    /\ rd = r
    /\ bufr = <<>>
    /\ h = <<>>
    /\ signatures = <<>>
    /\ dchunk = <<>>
    /\ dj = 0
    /\ pw = <<>>
    /\ wk = <<>>
    /\ chans = <<>>
    /\ verifications = <<>>
    /\ retErr = NoErr
    /\ bodyRead = <<>>

\* The error a reader that ends with term returns, io.EOF included.
TermError(term) == IF term = "ERR" THEN ReadError ELSE EOFError

\* One Read of the reader r: the data or the error, and the reader after it.
\* Once its results are used up the reader returns its last error for ever,
\* as errorReader does (src/dkim/verify_test.go:214).
NextRead(r) ==
    IF r.chunks = <<>>
    THEN [data |-> <<>>, err |-> TermError(r.term),
          rd |-> [r EXCEPT !.failed = @ \/ r.term = "ERR"]]
    ELSE IF Head(r.chunks) = FailedRead
    THEN [data |-> <<>>, err |-> ReadError,
          rd |-> [r EXCEPT !.chunks = Tail(@), !.failed = TRUE]]
    ELSE [data |-> Head(r.chunks), err |-> NoErr,
          rd |-> [r EXCEPT !.chunks = Tail(@)]]

(***************************************************************************)
(* VerifyWithOptions (src/dkim/dkim.go:346).                               *)
(***************************************************************************)

\* The least number of Read results bufio needs before readHeader returns:
\* with the end of the header or with the error of a Read; all of them when
\* it is the end of the reader that stops readHeader.
RECURSIVE HeaderReads(_, _)
HeaderReads(chunks, k) ==
    IF k >= Len(chunks) THEN Len(chunks)
    ELSE IF readHeader(FlattenRange(chunks, 1, k), EOFError).err # EOFError THEN k
    ELSE HeaderReads(chunks, k + 1)

\* The signature fields of h in header order (lines 357-364).
ScanSignatures(hh) ==
    LET S == {i \in 1..Len(hh) :
                EqualFold(parseHeaderField(hh[i]).k, headerFieldName)}
    IN  [j \in 1..Cardinality(S) |->
            [i |-> Nth(S, j), v |-> parseHeaderField(hh[Nth(S, j)]).v]]

\* bufio.NewReader, readHeader, the scan for signatures, and for a message
\* with no or several signatures the start of parallelVerify: the pipes,
\* the channels and the goroutines (lines 350-368, 381-408).
ReadHeader ==
    /\ pc = "verify"
    /\ LET k == HeaderReads(rd.chunks, 1)
           got == FlattenRange(rd.chunks, 1, k)
           r == readHeader(got, TermError(rd.term))
           sigs == ScanSignatures(r.h)
           n == Len(sigs)
       IN  /\ rd' = [rd EXCEPT
                       !.chunks = SubSeq(@, k + 1, Len(@)),
                       !.failed = \/ \E j \in 1..k : rd.chunks[j] = FailedRead
                                  \/ r.err = ReadError]
           /\ IF r.err # NoErr
              THEN /\ pc' = "returned"
                   /\ retErr' = r.err
                   /\ UNCHANGED <<bufr, h, signatures, dchunk, pw, wk, chans,
                                  bodyRead>>
              ELSE /\ h' = r.h
                   /\ signatures' = sigs
                   /\ retErr' = NoErr
                   /\ bodyRead' = r.rest
                   /\ wk' = [i \in 1..n |-> NewWorker(i)]
                   /\ IF n # 1
                      THEN /\ pc' = "copy"
                           /\ bufr' = <<>>
                           /\ dchunk' = r.rest
                           /\ pw' = [i \in 1..n |-> NewPipe]
                           /\ chans' = [i \in 1..n |-> <<>>]
                      ELSE /\ pc' = "single"
                           /\ bufr' = r.rest
                           /\ UNCHANGED <<dchunk, pw, chans>>
    /\ UNCHANGED <<world, dj, verifications, signing>>

\* io.Copy's error for a source that ends with term: io.EOF ends the copy
\* without error.
CopyError(err) == IF err = EOFError THEN NoErr ELSE err

\* What VerifyWithOptions returns for its only signature (lines 371-377).
SingleResultMutant(v, err) ==
    [verifications |-> <<[v EXCEPT !.Err = err]>>, err |-> NoErr]
SingleResult(v, err) ==
    IF err # NoErr /\ ~IsTempFail(err) /\ ~IsPermFail(err) /\ ~isFail(err)
    THEN [verifications |-> <<>>, err |-> err]
    ELSE [verifications |-> <<[v EXCEPT !.Err = err]>>, err |-> NoErr]

\* The worker w once verifyChecks returned c for it: with the body
\* canonicalizer and the hasher of lines 598-603 when the checks passed.
Checked(w, c) ==
    IF c.err # NoErr
    THEN [w EXCEPT !.c = c, !.err = c.err, !.pc = "drain"]
    ELSE [w EXCEPT !.c = c, !.pc = "body", !.hasCan = TRUE,
                   !.can = CanonicalizeBody(c.bodyCan),
                   !.hw = [N |-> BodyWriter(c.bodyLen), sum |-> <<>>]]

\* One Write of io.Copy on the body canonicalizer of w.
BodyWrite(w, data) ==
    LET r == CanonWrite(w.can, data)
    IN  [w EXCEPT !.can = r.c, !.hw = HashWrites(@, r.out),
                  !.seen = @ \o data, !.writes = @ + 1,
                  !.canOut = @ \o Flatten(r.out)]

\* wc.Close and the rest of verify (lines 607-645); outcome records the
\* comparison that failed.
BodyClosing(w, can, hw, out, outcome) ==
    [w EXCEPT !.can = can, !.hw = hw, !.canOut = @ \o Flatten(out),
              !.outcome = outcome, !.err = verifyFinish(outcome),
              !.pc = "drain"]
BodyClose(w, hh, sigField) ==
    BodyClosing(w, CanonClose(w.can).c,
                HashWrites(w.hw, CanonClose(w.can).out),
                CanonClose(w.can).out,
                verifyCompare(w.c, hh, sigField,
                              HashWrites(w.hw, CanonClose(w.can).out).sum))

\* verify for the only signature up to the body hash (line 371).
SingleStart ==
    /\ pc = "single"
    /\ LET c == verifyChecks(1, signatures[1].v, world.oracle, world.dns,
                             world.now)
           res == SingleResult(c.verif, c.err)
       IN  /\ wk' = [wk EXCEPT ![1] = Checked(@, c)]
           /\ IF c.err # NoErr
              THEN /\ pc' = "returned"
                   /\ verifications' = res.verifications
                   /\ retErr' = res.err
              ELSE /\ pc' = "singleBody"
                   /\ UNCHANGED <<verifications, retErr>>
    /\ UNCHANGED <<world, rd, bufr, h, signatures, dchunk, dj, pw, chans,
                   bodyRead, signing>>

\* One round of io.Copy(wc, bufr) in verify for the only signature: the
\* buffered bytes, then one Read result after the other; at the end of the
\* reader the rest of verify and the return of VerifyWithOptions.
SingleRead ==
    /\ pc = "singleBody"
    /\ IF bufr # <<>>
       THEN /\ wk' = [wk EXCEPT ![1] = BodyWrite(@, bufr)]
            /\ bufr' = <<>>
            /\ UNCHANGED <<rd, pc, verifications, retErr, bodyRead>>
       ELSE IF NextRead(rd).err = NoErr
       THEN /\ wk' = [wk EXCEPT ![1] = BodyWrite(@, NextRead(rd).data)]
            /\ rd' = NextRead(rd).rd
            /\ bodyRead' = bodyRead \o NextRead(rd).data
            /\ UNCHANGED <<bufr, pc, verifications, retErr>>
       ELSE LET w == IF CopyError(NextRead(rd).err) # NoErr
                     THEN [wk[1] EXCEPT !.err = CopyError(NextRead(rd).err)]
                     ELSE BodyClose(wk[1], h, h[signatures[1].i])
                res == SingleResult(w.c.verif, w.err)
            IN  /\ wk' = [wk EXCEPT ![1] = [w EXCEPT !.pc = "done"]]
                /\ rd' = NextRead(rd).rd
                /\ pc' = "returned"
                /\ verifications' = res.verifications
                /\ retErr' = res.err
                /\ UNCHANGED <<bufr, bodyRead>>
    /\ UNCHANGED <<world, h, signatures, dchunk, dj, pw, chans, signing>>

(***************************************************************************)
(* parallelVerify (src/dkim/dkim.go:380): the driver.                      *)
(***************************************************************************)

\* What io.MultiWriter hands to writer j of a Write of p.
MultiWriteMutant(p, j) == IF j = 1 THEN p ELSE SubSeq(p, 1, Len(p) - 1)
MultiWrite(p, j) == p

\* io.MultiWriter.Write: the Write on the next pipe, which returns once the
\* worker has read the bytes.
DriverWrite ==
    /\ pc = "copy"
    /\ dj < Len(pw)
    /\ IF dj = 0 THEN TRUE ELSE ~pw[dj].busy
    /\ pw' = [pw EXCEPT ![dj + 1] = [@ EXCEPT !.data = MultiWrite(dchunk, dj + 1),
                                              !.busy = TRUE]]
    /\ dj' = dj + 1
    /\ UNCHANGED <<world, rd, bufr, pc, h, signatures, dchunk, wk, chans,
                   verifications, retErr, bodyRead, signing>>

\* io.Copy(io.MultiWriter(writers...), r) once a Write has returned: the
\* next Read; at its error the return of line 411, at EOF the loop of
\* line 413.
DriverFetch ==
    /\ pc = "copy"
    /\ dj = Len(pw)
    /\ IF Len(pw) = 0 THEN TRUE ELSE ~pw[Len(pw)].busy
    /\ rd' = NextRead(rd).rd
    /\ IF NextRead(rd).err = NoErr
       THEN /\ dchunk' = NextRead(rd).data
            /\ bodyRead' = bodyRead \o NextRead(rd).data
            /\ dj' = 0
            /\ UNCHANGED <<pc, retErr>>
       ELSE IF CopyError(NextRead(rd).err) # NoErr
       THEN /\ pc' = "returned"
            /\ retErr' = CopyError(NextRead(rd).err)
            /\ UNCHANGED <<dchunk, dj, bodyRead>>
       ELSE /\ pc' = IF Len(pw) = 0 THEN "collect" ELSE "close"
            /\ dj' = 0
            /\ UNCHANGED <<dchunk, retErr, bodyRead>>
    /\ UNCHANGED <<world, bufr, h, signatures, pw, wk, chans, verifications,
                   signing>>

\* wr.Close() for the next pipe writer (lines 413-415).
DriverClose ==
    /\ pc = "close"
    /\ pw' = [pw EXCEPT ![dj + 1] = [@ EXCEPT !.closed = TRUE]]
    /\ IF dj + 1 = Len(pw)
       THEN pc' = "collect" /\ dj' = 0
       ELSE pc' = pc /\ dj' = dj + 1
    /\ UNCHANGED <<world, rd, bufr, h, signatures, dchunk, wk, chans,
                   verifications, retErr, bodyRead, signing>>

\* The channel the driver receives result number k + 1 from (line 418).
NextChanMutant(chs, k) ==
    IF \E i \in 1..Len(chs) : chs[i] # <<>>
    THEN CHOOSE i \in 1..Len(chs) :
            chs[i] # <<>> /\ \A j \in 1..Len(chs) : chs[j] # <<>> => j <= i
    ELSE k + 1
NextChan(chs, k) == k + 1

\* verifications[i] = <-ch (line 419).
DriverCollect ==
    /\ pc = "collect"
    /\ dj < Len(chans)
    /\ LET i == NextChan(chans, dj)
       IN  /\ chans[i] # <<>>
           /\ verifications' = Append(verifications, Head(chans[i]))
           /\ chans' = [chans EXCEPT ![i] = Tail(@)]
    /\ dj' = dj + 1
    /\ UNCHANGED <<world, rd, bufr, pc, h, signatures, dchunk, pw, wk,
                   retErr, bodyRead, signing>>

\* The result of parallelVerify for the collected vs (lines 422-430).
ParallelResult(vs) ==
    LET U == {i \in 1..Len(vs) :
                /\ vs[i].Err # NoErr
                /\ ~IsTempFail(vs[i].Err)
                /\ ~IsPermFail(vs[i].Err)
                /\ ~isFail(vs[i].Err)}
        u == Nth(U, 1)
    IN  IF U = {} THEN [verifications |-> vs, err |-> NoErr]
        ELSE [verifications |-> [vs EXCEPT ![u].Err = NoErr],
              err |-> vs[u].Err]

DriverReturn ==
    /\ pc = "collect"
    /\ dj = Len(chans)
    /\ pc' = "returned"
    /\ verifications' = ParallelResult(verifications).verifications
    /\ retErr' = ParallelResult(verifications).err
    /\ UNCHANGED <<world, rd, bufr, h, signatures, dchunk, dj, pw, wk, chans,
                   bodyRead, signing>>

(***************************************************************************)
(* parallelVerify: the goroutine of signature i (lines 398-407).           *)
(***************************************************************************)

\* verify up to the body hash.
WorkerStart(i) ==
    /\ i \in DOMAIN pw
    /\ wk[i].pc = "start"
    /\ wk' = [wk EXCEPT ![i] =
                Checked(@, verifyChecks(i, signatures[i].v, world.oracle,
                                        world.dns, world.now))]
    /\ UNCHANGED <<world, rd, bufr, pc, h, signatures, dchunk, dj, pw, chans,
                   verifications, retErr, bodyRead, signing>>

\* One Read of io.Copy(wc, pr): the bytes of the pending Write of the driver,
\* or EOF once the pipe is closed, and then the rest of verify.
WorkerRead(i) ==
    /\ i \in DOMAIN pw
    /\ wk[i].pc = "body"
    /\ IF pw[i].busy
       THEN /\ wk' = [wk EXCEPT ![i] = BodyWrite(@, pw[i].data)]
            /\ pw' = [pw EXCEPT ![i] = [@ EXCEPT !.busy = FALSE, !.data = <<>>]]
       ELSE /\ pw[i].closed
            /\ wk' = [wk EXCEPT ![i] = BodyClose(@, h, h[signatures[i].i])]
            /\ pw' = pw
    /\ UNCHANGED <<world, rd, bufr, pc, h, signatures, dchunk, dj, chans,
                   verifications, retErr, bodyRead, signing>>

\* A goroutine that sends its result without io.Copy(ioutil.Discard, pr).
WorkerDrainMutant(i) ==
    /\ i \in DOMAIN pw
    /\ wk[i].pc = "drain"
    /\ wk' = [wk EXCEPT ![i].pc = "send"]
    /\ UNCHANGED <<world, rd, bufr, pc, h, signatures, dchunk, dj, pw, chans,
                   verifications, retErr, bodyRead, signing>>

\* One Read of io.Copy(ioutil.Discard, pr).
WorkerDrain(i) ==
    /\ i \in DOMAIN pw
    /\ wk[i].pc = "drain"
    /\ IF pw[i].busy
       THEN /\ pw' = [pw EXCEPT ![i] = [@ EXCEPT !.busy = FALSE, !.data = <<>>]]
            /\ wk' = wk
       ELSE /\ pw[i].closed
            /\ wk' = [wk EXCEPT ![i].pc = "send"]
            /\ pw' = pw
    /\ UNCHANGED <<world, rd, bufr, pc, h, signatures, dchunk, dj, chans,
                   verifications, retErr, bodyRead, signing>>

\* v.Err = err; chans[i] <- v.  rank is the number of results sent so far,
\* this one included.
WorkerSend(i) ==
    /\ i \in DOMAIN pw
    /\ wk[i].pc = "send"
    /\ Len(chans[i]) < 1
    /\ chans' = [chans EXCEPT ![i] = Append(@, [wk[i].c.verif EXCEPT
                                                  !.Err = wk[i].err])]
    /\ wk' = [wk EXCEPT ![i].pc = "done",
                         ![i].rank = 1 + Cardinality({j \in DOMAIN wk :
                                                        wk[j].pc = "done"})]
    /\ UNCHANGED <<world, rd, bufr, pc, h, signatures, dchunk, dj, pw,
                   verifications, retErr, bodyRead, signing>>

(***************************************************************************)
(* Messages, keys and readers.                                             *)
(***************************************************************************)

\* The clock of the tests (src/dkim/dkim_test.go:52).
Now == 424242

\* "x.org", "s1", "s2", "s3".
DomainX == <<120, 46, 111, 114, 103>>
Sel1 == <<115, 49>>
Sel2 == <<115, 50>>
Sel3 == <<115, 51>>

\* The TXT record "v=DKIM1; p=" and the base64 text of a public key, and the
\* oracle of that text: an RSA key of 1024 bits.
TxtOfKey == <<118, 61, 68, 75, 73, 77, 49, 59, 32, 112, 61>> \o EncodeToString(1, 3)
KeysOf(key) == <<RSAPublicKey(key, 1024)>>

\* A name server's answer for the selector of domain.
Published(domain, selector, txt, keys) ==
    [domain |-> domain, selector |-> selector, fail |-> "nil", txt |-> txt,
     keys |-> keys]
Unpublished(domain, selector, fail) ==
    [domain |-> domain, selector |-> selector, fail |-> fail, txt |-> <<>>,
     keys |-> <<>>]

\* The TXT records of the environment: keys k1 and k2 under s1 and s2, and
\* a name server that times out for s3.
DNS ==
    <<Published(DomainX, Sel1, TxtOfKey, KeysOf("k1")),
      Published(DomainX, Sel2, TxtOfKey, KeysOf("k2")),
      Unpublished(DomainX, Sel3, "temp")>>

\* SignOptions with the defaults of Go for what is left out.
Options(domain, selector, key, headerCan, bodyCan) ==
    [Domain |-> domain, Selector |-> selector, Identifier |-> <<>>,
     Signer |-> [type |-> "rsa", key |-> key, size |-> 128],
     Hash |-> "",
     HeaderCanonicalization |-> headerCan, BodyCanonicalization |-> bodyCan,
     HeaderKeys |-> [isNil |-> TRUE, list |-> <<>>],
     Expiration |-> 0,
     QueryMethods |-> [isNil |-> TRUE, list |-> <<>>]]

\* "From: a@x.org\r\nTo: b\r\n\r\nhi \r\nyo\r\n\r\n"
MsgPlain ==
    <<70, 114, 111, 109, 58, 32, 97, 64, 120, 46, 111, 114, 103, 13, 10, 84, 111, 58, 32, 98, 13, 10, 13, 10, 104, 105, 32, 13, 10, 121, 111, 13, 10, 13, 10>>

\* "asdf" (src/dkim/verify_test.go:229): a header without end.
MsgNoHeader == <<97, 115, 100, 102>>

\* "DKIM-Signature: v=2\r\n" and "dkim-signature: x\r\n".
FieldV2 ==
    <<68, 75, 73, 77, 45, 83, 105, 103, 110, 97, 116, 117, 114, 101, 58, 32, 118, 61, 50, 13, 10>>
FieldLower ==
    <<100, 107, 105, 109, 45, 115, 105, 103, 110, 97, 116, 117, 114, 101, 58, 32, 120, 13, 10>>

\* The output of Sign signed once more, with other options.
SignAgain(signed, options) ==
    Sign(signed.out, Len(signed.out), options, Now, signed.oracle)

\* MsgPlain signed for s1, then also for s2 or for s3; the signer got the
\* body in one Read.
Signed1 == Sign(MsgPlain, Len(MsgPlain),
                Options(DomainX, Sel1, "k1", "relaxed", "simple"), Now, <<>>)
Signed2 == SignAgain(Signed1, Options(DomainX, Sel2, "k2", "simple", "relaxed"))
Signed3 == SignAgain(Signed1, Options(DomainX, Sel3, "k3", "relaxed", "relaxed"))

\* The message m with its body followed by "!": changed in transit.
OtherBody(m) == m \o <<33>>

\* The message m with the field "To: c" added at the bottom of its header.
OtherHeader(m) ==
    LET r == readHeader(m, EOFError)
    IN  Flatten(r.h) \o <<84, 111, 58, 32, 99, 13, 10>> \o crlf \o r.rest

\* A message as Verify gets it: the bytes and the oracle of its base64
\* texts.
Message(bytes, orc) == [bytes |-> bytes, oracle |-> orc]

\* The output of Sign as it is and as it arrives after changes in transit.
Arrivals(signed) ==
    {Message(signed.out, signed.oracle),
     Message(OtherBody(signed.out), signed.oracle),
     Message(OtherHeader(signed.out), signed.oracle),
     Message(FieldV2 \o signed.out, signed.oracle),
     Message(FieldLower \o signed.out, signed.oracle)}

\* The messages Verify is given.
Messages ==
    {Message(MsgPlain, <<>>), Message(MsgNoHeader, <<>>),
     Message(FieldV2 \o MsgPlain, <<>>)}
      \cup Arrivals(Signed1) \cup Arrivals(Signed2) \cup Arrivals(Signed3)

\* The most Read results with data a reader gives.
MaxReads == 3

\* The places a reader may cut the bytes m between two Read results: in the
\* first header line, around the end of the header and in the body.
CutPlaces(m) ==
    LET r == readHeader(m, EOFError)
        e == Len(m) - Len(r.rest)
    IN  {3, e - 1, e, e + 2, e + 5} \cap (1..(Len(m) - 1))

\* The Read results of a reader that cuts m at the places C.
Chunks(m, C) ==
    LET cs == Sorted(C)
    IN  [k \in 1..(Len(cs) + 1) |->
            SubSeq(m, IF k = 1 THEN 1 ELSE cs[k - 1] + 1,
                      IF k = Len(cs) + 1 THEN Len(m) ELSE cs[k])]

\* The Read results cs with a failed Read after result number f, none for
\* f = 0.
WithFailedRead(cs, f) ==
    IF f = 0 THEN cs
    ELSE SubSeq(cs, 1, f) \o <<FailedRead>> \o SubSeq(cs, f + 1, Len(cs))

\* The readers of m: its bytes in at most MaxReads pieces, with at most one
\* failed Read between two of them, then EOF or the error of errorReader
\* (src/dkim/verify_test.go:214).
Readers(m) ==
    UNION {{[chunks |-> WithFailedRead(Chunks(m, C), f), term |-> t,
             failed |-> FALSE] :
               f \in 0..Cardinality(C), t \in {"EOF", "ERR"}} :
           C \in {D \in SUBSET CutPlaces(m) : Cardinality(D) < MaxReads}}

\* No call of Sign.
NoSigning == [options |-> Options(<<>>, <<>>, "", "", ""), msg |-> <<>>,
              chunk |-> 0, err |-> NoErr, done |-> FALSE, read |-> 0,
              out |-> <<>>]

Init ==
    /\ pc = "verify"
    /\ signing = NoSigning
    /\ \E m \in Messages, n \in {0, 2} :
          \E r \in Readers(m.bytes) :
             VerifyInit(r, [msg |-> m.bytes, l |-> -1, oracle |-> m.oracle,
                            dns |-> DNS, now |-> Now,
                            MaxVerifications |-> n])

Next ==
    \/ ReadHeader
    \/ SingleStart
    \/ SingleRead
    \/ DriverWrite
    \/ DriverFetch
    \/ DriverClose
    \/ DriverCollect
    \/ DriverReturn
    \/ \E i \in 1..3 : WorkerStart(i)
    \/ \E i \in 1..3 : WorkerRead(i)
    \/ \E i \in 1..3 : WorkerDrain(i)
    \/ \E i \in 1..3 : WorkerSend(i)

Spec == Init /\ [][Next]_vars

\* The steps of the goroutine that called Verify for a message with
\* several signatures, and those of the goroutine of signature i.
Driver ==
    \/ ReadHeader
    \/ DriverWrite
    \/ DriverFetch
    \/ DriverClose
    \/ DriverCollect
    \/ DriverReturn
Worker(i) ==
    \/ WorkerStart(i)
    \/ WorkerRead(i)
    \/ WorkerDrain(i)
    \/ WorkerSend(i)

\* The messages with two and three signatures as they were signed, and
\* the second with a signature of version 2 on top, each from a reader that
\* gives it in one or two pieces and then EOF, or that fails.
FairMessages ==
    {Message(Signed2.out, Signed2.oracle),
     Message(Signed3.out, Signed3.oracle),
     Message(FieldV2 \o Signed2.out, Signed2.oracle)}

InitFair ==
    /\ pc = "verify"
    /\ signing = NoSigning
    /\ \E m \in FairMessages :
          \E r \in {q \in Readers(m.bytes) : Len(q.chunks) <= 2} :
             VerifyInit(r, [msg |-> m.bytes, l |-> -1, oracle |-> m.oracle,
                            dns |-> DNS, now |-> Now,
                            MaxVerifications |-> 0])

NextFair ==
    \/ Driver
    \/ \E i \in 1..3 : Worker(i)

\* ENABLED <<Driver>>_vars, from the guards of its actions: the driver is
\* not waiting for a pipe to be read or for a result to be sent.
DriverCan ==
    \/ pc = "verify"
    \/ pc = "copy" /\ dj < Len(pw) /\ (dj = 0 \/ ~pw[dj].busy)
    \/ pc = "copy" /\ dj = Len(pw) /\ (Len(pw) = 0 \/ ~pw[Len(pw)].busy)
    \/ pc = "close"
    \/ pc = "collect" /\ dj < Len(chans) /\ chans[NextChan(chans, dj)] # <<>>
    \/ pc = "collect" /\ dj = Len(chans)

\* ENABLED <<Worker(i)>>_vars, from the guards of its actions: the
\* goroutine is not waiting for a Write or Close on its pipe, nor for room
\* in its channel.
WorkerCan(i) ==
    /\ i \in DOMAIN pw
    /\ \/ wk[i].pc = "start"
       \/ wk[i].pc \in {"body", "drain"} /\ (pw[i].busy \/ pw[i].closed)
       \/ wk[i].pc = "send" /\ Len(chans[i]) < 1

\* Verify under the scheduler of Go: a goroutine that can take a step is
\* not left waiting for ever.  This is WF_vars(Driver) and WF_vars(Worker(i))
\* with ENABLED written as the state predicates above.
SpecFair ==
    /\ InitFair
    /\ [][NextFair]_vars
    /\ []<>(~DriverCan) \/ []<><<Driver>>_vars
    /\ \A i \in 1..3 : []<>(~WorkerCan(i)) \/ []<><<Worker(i)>>_vars

(***************************************************************************)
(* Verify of one signature with an l tag, for every small body and every   *)
(* way the reader splits it.                                               *)
(***************************************************************************)

\* The longest body, the largest l tag.
MaxBody == 3
MaxLimit == 4

\* The l tags: none of the body, a part of it, and as much as it or more.
Limits == {0, 2, MaxLimit}

\* "From: a\r\n"
FieldFrom == <<70, 114, 111, 109, 58, 32, 97, 13, 10>>

\* The bodies: a letter, SP, CR and LF in every order.
Bodies == UNION {[1..n -> {97, 32, 13, 10}] : n \in 0..MaxBody}

\* A signature field with l=n of the key k1: its bh tag is the digest of
\* the empty string, its b tag the text of no signature.
LimitField(n, bodyCan) ==
    formatSignature(
        (TagV :> <<49>>)
        @@ (TagA :> (StrRsa \o <<45>> \o StrSha256))
        @@ (TagBH :> EncodeToString(1, HashSize("sha256")))
        @@ (TagB :> EncodeToString(2, 128))
        @@ (TagC :> (CanonicalizationBytes("simple") \o <<47>>
                       \o CanonicalizationBytes(bodyCan)))
        @@ (TagD :> DomainX)
        @@ (TagH :> StrFrom)
        @@ (TagL :> FormatInt(n))
        @@ (TagS :> Sel1))

LimitOracle == <<Digest("sha256", <<>>), Garbage>>

\* The readers of the message of header hd and the given body: any split of
\* the body, its first piece in one Read with the header or not.
LimitReaders(hd, body) ==
    {[chunks |-> Chunks(hd \o body, C), term |-> "EOF", failed |-> FALSE] :
        C \in SUBSET (Len(hd)..(Len(hd) + Len(body) - 1))}

InitLimit ==
    /\ pc = "verify"
    /\ signing = NoSigning
    /\ \E body \in Bodies, n \in Limits, can \in {"simple", "relaxed"} :
          \E r \in LimitReaders(LimitField(n, can) \o FieldFrom \o crlf, body) :
             VerifyInit(r, [msg |-> LimitField(n, can) \o FieldFrom \o crlf \o body,
                            l |-> n, oracle |-> LimitOracle, dns |-> DNS,
                            now |-> Now, MaxVerifications |-> 0])

NextLimit ==
    \/ ReadHeader
    \/ SingleStart
    \/ SingleRead

SpecLimit == InitLimit /\ [][NextLimit]_vars


(***************************************************************************)
(* Sign (src/sign.go:56) and then Verify of what it wrote.                 *)
(***************************************************************************)

\* The longest selector.
MaxSelector == 13

\* The bytes of one Read of the reader given to Sign when it does not give
\* the whole body at once.
SignRead == 4

\* The selector of n letters "s".
Selector(n) == [i \in 1..n |-> 115]

\* "Subject:  hi \r\n\tthere\r\nFrom: a@x.org\r\n\r\nyo\r\n \r\n": a folded
\* field and a body that ends with a line of white space.
MsgFolded ==
    <<83, 117, 98, 106, 101, 99, 116, 58, 32, 32, 104, 105, 32, 13, 10, 9, 116, 104, 101, 114, 101, 13, 10, 70, 114, 111, 109, 58, 32, 97, 64, 120, 46, 111, 114, 103, 13, 10, 13, 10, 121, 111, 13, 10, 32, 13, 10>>

\* "To: b\r\n\r\nhi\r\n": no From field.
MsgNoFrom == <<84, 111, 58, 32, 98, 13, 10, 13, 10, 104, 105, 13, 10>>

\* "From: a@x.org\nTo: b\n\nhi\n": lines that end with LF alone.
MsgBareLF ==
    <<70, 114, 111, 109, 58, 32, 97, 64, 120, 46, 111, 114, 103, 10, 84, 111, 58, 32, 98, 10, 10, 104, 105, 10>>

\* HeaderKeys of SignOptions: nil, or the list of "From" alone.
KeysNil == [isNil |-> TRUE, list |-> <<>>]
KeysFrom == [isNil |-> FALSE, list |-> <<<<70, 114, 111, 109>>>>]
KeysTo == [isNil |-> FALSE, list |-> <<<<84, 111>>>>]

\* The TXT record of the key k1 under the selector.
SignerDNS(selector) ==
    <<Published(DomainX, selector, TxtOfKey, KeysOf("k1"))>>

InitSign ==
    /\ pc = "sign"
    /\ \E n \in 1..MaxSelector, hc, bc \in {"", "simple", "relaxed"},
          keys \in {KeysNil, KeysFrom, KeysTo},
          m \in {MsgPlain, MsgFolded, MsgNoFrom, MsgBareLF} :
          /\ \E chunk \in {SignRead, Len(m)} :
                signing = [options |-> [Options(DomainX, Selector(n), "k1", hc, bc)
                                          EXCEPT !.HeaderKeys = keys],
                           msg |-> m, chunk |-> chunk, err |-> NoErr,
                           done |-> FALSE, read |-> 0, out |-> <<>>]
          /\ VerifyInit([chunks |-> <<>>, term |-> "EOF", failed |-> FALSE],
                        [msg |-> <<>>, l |-> -1, oracle |-> <<>>,
                         dns |-> SignerDNS(Selector(n)), now |-> Now,
                         MaxVerifications |-> 0])

\* Sign(w, r, options), and then Verify on a reader of the bytes written to
\* w when Sign returned no error.
DoSign ==
    /\ pc = "sign"
    /\ LET res == Sign(signing.msg, signing.chunk, signing.options, world.now,
                       <<>>)
       IN  /\ signing' = [signing EXCEPT !.err = res.err, !.done = TRUE,
                                         !.read = res.read, !.out = res.out]
           /\ IF res.err # NoErr
              THEN /\ pc' = "signFailed"
                   /\ UNCHANGED <<world, rd>>
              ELSE /\ pc' = "verify"
                   /\ world' = [world EXCEPT !.msg = res.out,
                                             !.oracle = res.oracle]
                   /\ rd' = [rd EXCEPT !.chunks = <<res.out>>]
    /\ UNCHANGED <<bufr, h, signatures, dchunk, dj, pw, wk, chans,
                   verifications, retErr, bodyRead>>

NextSign ==
    \/ DoSign
    \/ ReadHeader
    \/ SingleStart
    \/ SingleRead

SpecSign == InitSign /\ [][NextSign]_vars

(***************************************************************************)
(* Sign with an identifier and a hash, and Verify of what it wrote against *)
(* every kind of key record (src/query.go:53-136).                         *)
(***************************************************************************)

\* The i tags of the signer's options: none, the domain itself with and
\* without a local part, a subdomain, and two other domains ("a@y.org",
\* "a@xx.org").
IdDomain == <<64, 120, 46, 111, 114, 103>>
IdUser == <<97, 64, 120, 46, 111, 114, 103>>
IdSub == <<97, 64, 115, 46, 120, 46, 111, 114, 103>>
IdOther == <<97, 64, 121, 46, 111, 114, 103>>
IdLonger == <<97, 64, 120, 120, 46, 111, 114, 103>>
Identifiers == {<<>>, IdDomain, IdUser, IdSub, IdOther, IdLonger}

\* The text of a key record with the given tags, "name=value" joined by
\* "; ".
KeyTxt(tags) ==
    Join([j \in 1..Len(tags) |-> tags[j][1] \o <<61>> \o tags[j][2]], <<59, 32>>)

\* The tags "v=DKIM1" and "p=" with the base64 text of keys[1].
V1 == <<TagV, StrDKIM1>>
P1 == <<TagP, EncodeToString(1, 3)>>

\* The sizes in bits of the RSA keys a domain publishes.
KeyBits == {512, 1016, 1017, 1023, 1024, 2048}

\* The key records of the selector s1: texts [txt, keys] with the key k1.
GoodKeys ==
    {[txt |-> KeyTxt(<<V1, P1>>), keys |-> KeysOf("k1")],
     [txt |-> KeyTxt(<<P1>>), keys |-> KeysOf("k1")],
     [txt |-> KeyTxt(<<V1, <<TagK, StrRsa>>, P1, <<TagN, <<110>>>>>>),
      keys |-> KeysOf("k1")]}
FlagKeys ==
    {[txt |-> KeyTxt(<<V1, P1, <<TagT, t>>>>), keys |-> KeysOf("k1")] :
        t \in {<<115>>, <<121, 58, 115>>, <<121>>}}
HashKeys ==
    {[txt |-> KeyTxt(<<V1, <<TagH, hs>>, P1>>), keys |-> KeysOf("k1")] :
        hs \in {StrSha1, StrSha256, StrSha1 \o <<58>> \o StrSha256}}
ServiceKeys ==
    {[txt |-> KeyTxt(<<V1, P1, <<TagS, sv>>>>), keys |-> KeysOf("k1")] :
        sv \in {<<42>>, StrEmail, <<116, 108, 115, 114, 112, 116>>}}
SizedKeys ==
    {[txt |-> KeyTxt(<<V1, P1>>), keys |-> <<RSAPublicKey("k1", n)>>] :
        n \in KeyBits}
\* Key records no key comes from: "v=DKIM2", no p tag, an empty p tag, a p
\* tag that is not base64, one that is not a public key, "k=ed25519", a key
\* that is not an RSA key, and a text with a tag without "=".
KeyVersion2 ==
    [txt |-> KeyTxt(<<<<TagV, <<68, 75, 73, 77, 50>>>>, P1>>), keys |-> KeysOf("k1")]
KeyMissing == [txt |-> KeyTxt(<<V1, <<TagK, StrRsa>>>>), keys |-> KeysOf("k1")]
KeyRevoked == [txt |-> KeyTxt(<<V1, <<TagP, <<>>>>>>), keys |-> KeysOf("k1")]
KeyNotBase64 ==
    [txt |-> KeyTxt(<<V1, <<TagP, <<33, 33, 33, 33>>>>>>), keys |-> KeysOf("k1")]
KeyNotDER ==
    [txt |-> KeyTxt(<<V1, <<TagP, <<65, 65, 65, 65>>>>>>), keys |-> KeysOf("k1")]
KeyEd25519 ==
    [txt |-> KeyTxt(<<V1, <<TagK, <<101, 100, 50, 53, 53, 49, 57>>>>, P1>>),
     keys |-> KeysOf("k1")]
KeyNotRSA == [txt |-> KeyTxt(<<V1, P1>>), keys |-> <<ECPublicKey>>]
KeyMalformed ==
    [txt |-> KeyTxt(<<V1, P1>>) \o <<59, 32, 112>>, keys |-> KeysOf("k1")]
BadKeys ==
    {KeyVersion2, KeyMissing, KeyRevoked, KeyNotBase64, KeyNotDER, KeyEd25519,
     KeyNotRSA, KeyMalformed}

\* What the name server of x.org answers for s1: a key record, a time-out,
\* another error, or that the name does not exist.
Answers ==
    {<<Published(DomainX, Sel1, k.txt, k.keys)>> :
        k \in GoodKeys \cup FlagKeys \cup HashKeys \cup ServiceKeys
                \cup SizedKeys \cup BadKeys}
      \cup {<<Unpublished(DomainX, Sel1, "temp")>>,
            <<Unpublished(DomainX, Sel1, "perm")>>, <<>>}

InitKey ==
    /\ pc = "sign"
    /\ \E id \in Identifiers, hash \in {"", "sha1"}, dns \in Answers :
          /\ signing = [options |-> [Options(DomainX, Sel1, "k1", "relaxed",
                                             "simple")
                                       EXCEPT !.Identifier = id, !.Hash = hash],
                        msg |-> MsgPlain, chunk |-> Len(MsgPlain),
                        err |-> NoErr, done |-> FALSE, read |-> 0,
                        out |-> <<>>]
          /\ VerifyInit([chunks |-> <<>>, term |-> "EOF", failed |-> FALSE],
                        [msg |-> <<>>, l |-> -1, oracle |-> <<>>, dns |-> dns,
                         now |-> Now, MaxVerifications |-> 0])

NextKey ==
    \/ DoSign
    \/ ReadHeader
    \/ SingleStart
    \/ SingleRead

SpecKey == InitKey /\ [][NextKey]_vars

(***************************************************************************)
(* Sign with every kind of options (src/sign.go:56-119), valid or not.     *)
(***************************************************************************)

\* HeaderKeys ["to", "FROM"].
KeysUpper == [isNil |-> FALSE, list |-> <<<<116, 111>>, <<70, 82, 79, 77>>>>]

\* The options of the callers: nil, and every combination of a Domain, a
\* Selector, a Signer (none, an RSA key, an ECDSA key), canonicalizations,
\* a Hash and HeaderKeys, each left empty, valid or invalid.
AnyOptions ==
    {NilOptions} \cup
    {[Options(d, s, "k1", hc, bc)
        EXCEPT !.Signer.type = st, !.Hash = hash, !.HeaderKeys = keys] :
        d \in {<<>>, DomainX}, s \in {<<>>, Sel1},
        st \in {"nil", "rsa", "ecdsa"},
        hc \in {"", "relaxed", "pasta"}, bc \in {"", "simple", "potatoe"},
        hash \in {"", "sha256", "md5"},
        keys \in {KeysNil, KeysFrom, KeysTo, KeysUpper}}

InitOptions ==
    /\ pc = "sign"
    /\ \E o \in AnyOptions, m \in {MsgPlain, MsgNoHeader} :
          signing = [options |-> o, msg |-> m, chunk |-> Len(m),
                     err |-> NoErr, done |-> FALSE, read |-> 0, out |-> <<>>]
    /\ VerifyInit([chunks |-> <<>>, term |-> "EOF", failed |-> FALSE],
                  [msg |-> <<>>, l |-> -1, oracle |-> <<>>,
                   dns |-> SignerDNS(Sel1), now |-> Now,
                   MaxVerifications |-> 0])

NextOptions ==
    \/ DoSign
    \/ ReadHeader
    \/ SingleStart
    \/ SingleRead

SpecOptions == InitOptions /\ [][NextOptions]_vars

(***************************************************************************)
(* A body canonicalizer (src/dkim/canonical.go:47-170) given every short   *)
(* body in every split into Write calls, then closed.                      *)
(***************************************************************************)

\* The longest body and the most places it is cut at between two writes.
MaxCanon == 4
MaxCuts == 2

\* The bodies: a letter, SP, HT, CR and LF in every order.
CanonBodies == UNION {[1..n -> {97, 32, 9, 13, 10}] : n \in 0..MaxCanon}

\* The Write calls for body: none for the empty body, else its pieces
\* between at most MaxCuts cuts.
CanonWrites(body) ==
    IF body = <<>> THEN {<<>>}
    ELSE {Chunks(body, C) :
            C \in {D \in SUBSET (1..(Len(body) - 1)) : Cardinality(D) <= MaxCuts}}

InitCanon ==
    /\ pc = "canon"
    /\ signing = NoSigning
    /\ \E body \in CanonBodies, mode \in {"simple", "relaxed"} :
          \E ws \in CanonWrites(body) :
             /\ world = [msg |-> body, mode |-> mode, writes |-> ws]
             /\ rd = [chunks |-> ws, term |-> "EOF", failed |-> FALSE]
             /\ wk = <<[can |-> CanonicalizeBody(mode), canOut |-> <<>>,
                        ns |-> <<>>]>>
    /\ bufr = <<>>
    /\ h = <<>>
    /\ signatures = <<>>
    /\ dchunk = <<>>
    /\ dj = 0
    /\ pw = <<>>
    /\ chans = <<>>
    /\ verifications = <<>>
    /\ retErr = NoErr
    /\ bodyRead = <<>>

\* Write on the canonicalizer with the next piece of the body: canOut grows
\* by what the canonicalizer writes to the writer it was made for, ns by the
\* count Write returns.
CanonicalizerWrite ==
    /\ pc = "canon"
    /\ rd.chunks # <<>>
    /\ LET w == CanonWrite(wk[1].can, Head(rd.chunks))
       IN  wk' = <<[can |-> w.c, canOut |-> wk[1].canOut \o Flatten(w.out),
                    ns |-> Append(wk[1].ns, w.n)]>>
    /\ rd' = [rd EXCEPT !.chunks = Tail(@)]
    /\ bodyRead' = bodyRead \o Head(rd.chunks)
    /\ UNCHANGED <<world, bufr, pc, h, signatures, dchunk, dj, pw, chans,
                   verifications, retErr, signing>>

\* Close on the canonicalizer once the whole body is written.
CanonicalizerClose ==
    /\ pc = "canon"
    /\ rd.chunks = <<>>
    /\ LET w == CanonClose(wk[1].can)
       IN  wk' = <<[can |-> w.c, canOut |-> wk[1].canOut \o Flatten(w.out),
                    ns |-> wk[1].ns]>>
    /\ pc' = "closed"
    /\ UNCHANGED <<world, rd, bufr, h, signatures, dchunk, dj, pw, chans,
                   verifications, retErr, bodyRead, signing>>

NextCanon ==
    \/ CanonicalizerWrite
    \/ CanonicalizerClose

SpecCanon == InitCanon /\ [][NextCanon]_vars

(***************************************************************************)
(* The verifier of src/verify.go, with the canonicalizers of               *)
(* src/canonical.go.                                                       *)
(***************************************************************************)

\* The index "end" of simpleBodyCanonicalizer.Write (src/canonical.go:32):
\* b without the CR and LF bytes at its end.
RECURSIVE LegacyEnd(_, _)
LegacyEnd(b, end) ==
    IF end > 0 /\ b[end] \in {13, 10} THEN LegacyEnd(b, end - 1) ELSE end

\* simpleBodyCanonicalizer.Write (src/canonical.go:29): the held CR and LF
\* bytes are written, and then again in front of the new bytes.
LegacySimpleWrite(c, data) ==
    IF LegacyEnd(c.crlfBuf \o data, Len(c.crlfBuf) + Len(data)) = 0
    THEN [c |-> [c EXCEPT !.crlfBuf = c.crlfBuf \o data], out |-> <<>>]
    ELSE [c   |-> [c EXCEPT !.crlfBuf =
                     SubSeq(c.crlfBuf \o data,
                            LegacyEnd(c.crlfBuf \o data,
                                      Len(c.crlfBuf) + Len(data)) + 1,
                            Len(c.crlfBuf) + Len(data))],
          out |-> <<c.crlfBuf,
                    SubSeq(c.crlfBuf \o data, 1,
                           LegacyEnd(c.crlfBuf \o data,
                                     Len(c.crlfBuf) + Len(data)))>>]

\* simpleBodyCanonicalizer.Close (src/canonical.go:61).
LegacySimpleClose(c) == [c |-> c, out |-> <<crlf>>]

\* relaxedBodyCanonicalizer.Write (src/canonical.go:108).
LegacyRelaxedStep(c, st) ==
    [c   |-> [c EXCEPT !.crlfBuf = st.crlfBuf, !.wspBuf = st.wspBuf,
                       !.written = c.written \/ Len(st.canonical) > 0],
     out |-> <<st.canonical>>]
LegacyRelaxedWrite(c, data) ==
    LegacyRelaxedStep(c, RelaxedLoop([crlfBuf |-> c.crlfBuf,
                                      wspBuf |-> c.wspBuf,
                                      canonical |-> <<>>], data, 1))

LegacyCanonWrite(c, data) ==
    IF c.mode = "simple" THEN LegacySimpleWrite(c, data)
    ELSE LegacyRelaxedWrite(c, data)

\* relaxedBodyCanonicalizer.Close is the one of src/dkim/canonical.go.
LegacyCanonClose(c) ==
    IF c.mode = "simple" THEN LegacySimpleClose(c) ELSE RelaxedClose(c)

\* strings.Split(v, crlf).
SplitCRLF(v) ==
    LET ps == Sorted({i \in 1..(Len(v) - 1) : v[i] = 13 /\ v[i + 1] = 10})
        m == Len(ps)
    IN  [k \in 1..(m + 1) |->
            SubSeq(v, IF k = 1 THEN 1 ELSE ps[k - 1] + 2,
                      IF k = m + 1 THEN Len(v) ELSE ps[k] - 1)]

\* The loop of relaxedCanonicalizer.CanonicalizeHeader
\* (src/canonical.go:85) over lines[j..].
RECURSIVE LegacyUnfold(_, _)
LegacyUnfold(lines, j) ==
    IF j > Len(lines) THEN <<>>
    ELSE IF Len(lines[j]) = 0 THEN <<>>
    ELSE (IF lines[j][1] \in {32, 9} THEN <<32>> ELSE <<>>)
            \o TrimRight(TrimLeftSet(lines[j], {32, 9}), {32, 9})
            \o LegacyUnfold(lines, j + 1)

\* relaxedCanonicalizer.CanonicalizeHeader (src/canonical.go:74).
LegacyRelaxedLines(lines) ==
    LegacyUnfold([lines EXCEPT ![1] = TrimLeftSet(@, {32, 9})], 1)
LegacyRelaxedHeader(s) ==
    TrimSpace(ToLower(SplitN2(s, 58)[1])) \o <<58>>
        \o LegacyRelaxedLines(SplitCRLF(IF Len(SplitN2(s, 58)) > 1
                                        THEN SplitN2(s, 58)[2] ELSE <<>>))
        \o crlf

LegacyCanonicalizeHeader(can, s) ==
    IF can = "relaxed" THEN LegacyRelaxedHeader(s) ELSE s

\* parseTagList (src/verify.go:333).
LegacyParseTagList(s) ==
    [j \in 1..Len(Split(s, 58)) |-> TrimSpace(Split(s, 58)[j])]

\* parseCanonicalization (src/verify.go:341).
LegacyParseCanonicalization(s) ==
    [headerCan |-> IF SplitN2(s, 47)[1] # <<>>
                   THEN CanonicalizationName(SplitN2(s, 47)[1]) ELSE "simple",
     bodyCan   |-> IF Len(SplitN2(s, 47)) > 1
                   THEN CanonicalizationName(SplitN2(s, 47)[2]) ELSE "simple"]

\* What verify of src/verify.go knows when it turns to the body; hash is
\* the name of the hash of the a tag.
LegacyResult(v, e, res, cans, hash, bodyLen, bodyHashed, sigBytes) ==
    [verif |-> v, err |-> e, res |-> res,
     headerCan |-> cans.headerCan, bodyCan |-> cans.bodyCan, hash |-> hash,
     bodyLen |-> bodyLen, bodyHashed |-> bodyHashed, sig |-> sigBytes]

\* return verif, err before the body is read.
LegacyFailed(v, e) ==
    LegacyResult(v, e, KeyRecord(""),
                 [headerCan |-> "simple", bodyCan |-> "simple"], "sha256", -1,
                 Garbage, Garbage)

\* verify, src/verify.go:264-284, with the l, bh and b tags parsed.
LegacyParsed(v, hasL, l, bodyHashed, sigBytes, res, cans, hash) ==
    IF hasL /\ ~l.ok
    THEN LegacyFailed(v, permFailError("malformed body length"))
    ELSE IF hasL /\ l.n < 0
    THEN LegacyFailed(v, permFailError("malformed body length: negative value"))
    ELSE IF ~bodyHashed.ok
    THEN LegacyFailed([v EXCEPT !.BodyLength = IF hasL THEN l.n ELSE -1],
                      permFailError("malformed body hash"))
    ELSE IF ~sigBytes.ok
    THEN LegacyFailed([v EXCEPT !.BodyLength = IF hasL THEN l.n ELSE -1],
                      permFailError("malformed signature"))
    ELSE LegacyResult([v EXCEPT !.BodyLength = IF hasL THEN l.n ELSE -1],
                      NoErr, res, cans, hash, IF hasL THEN l.n ELSE -1,
                      bodyHashed.val, sigBytes.val)

\* verify, src/verify.go:256-284: the c, l, bh and b tags.
LegacyBodyLen(v, params, orc, res, cans, hash) ==
    IF cans.headerCan = "unknown"
    THEN LegacyFailed(v, permFailError(
                           "unsupported header canonicalization algorithm"))
    ELSE IF cans.bodyCan = "unknown"
    THEN LegacyFailed(v, permFailError(
                           "unsupported body canonicalization algorithm"))
    ELSE LegacyParsed(v, Has(params, TagL), ParseInt(Tag(params, TagL)),
                      decodeBase64String(orc, Tag(params, TagBH)),
                      decodeBase64String(orc, Tag(params, TagB)),
                      res, cans, hash)

\* verify, src/verify.go:207-254: the a tag against the key record; sha1
\* and sha256 are the hashes it knows.
LegacyAlgos(v, params, orc, res, algos) ==
    IF Len(algos) # 2
    THEN LegacyFailed(v, permFailError("malformed algorithm name"))
    ELSE IF ~res.HashAlgos.isNil
            /\ ~\E j \in 1..Len(res.HashAlgos.list) :
                    res.HashAlgos.list[j] = algos[2]
    THEN LegacyFailed(v, permFailError("inappropriate hash algorithm"))
    ELSE IF algos[2] # StrSha1 /\ algos[2] # StrSha256
    THEN LegacyFailed(v, permFailError("unsupported hash algorithm"))
    ELSE IF res.KeyAlgo # algos[1]
    THEN LegacyFailed(v, permFailError("inappropriate key algorithm"))
    ELSE IF ~res.Services.isNil
            /\ ~\E j \in 1..Len(res.Services.list) :
                    res.Services.list[j] = StrEmail
    THEN LegacyFailed(v, permFailError("inappropriate service"))
    ELSE LegacyBodyLen(v, params, orc, res,
                       LegacyParseCanonicalization(Tag(params, TagC)),
                       IF algos[2] = StrSha1 THEN "sha1" ELSE "sha256")

\* verify, src/verify.go:188-205: the query for the public key with the
\* first known method of the q tag.
LegacyKey(v, params, orc, methods, q) ==
    IF ~\E j \in 1..Len(methods) : methods[j] = QueryMethodDNSTXT
    THEN LegacyFailed(v, permFailError("unsupported public key query method"))
    ELSE IF q.err # NoErr
    THEN LegacyFailed(v, q.err)
    ELSE LegacyAlgos(v, params, orc, q.res, SplitN2(Tag(params, TagA), 45))

\* verify, src/verify.go:170-186: the t and x tags.
LegacyTimes(v, params, orc, dns, nowSec, t, x) ==
    IF Has(params, TagT) /\ ~t.ok
    THEN LegacyFailed(v, permFailError("malformed time"))
    ELSE IF Has(params, TagX) /\ ~x.ok
    THEN LegacyFailed(IF Has(params, TagT) THEN [v EXCEPT !.Time = <<t.n>>]
                      ELSE v,
                      permFailError("malformed expiration time"))
    ELSE IF Has(params, TagX) /\ nowSec > x.n
    THEN LegacyFailed([v EXCEPT
                         !.Time = IF Has(params, TagT) THEN <<t.n>> ELSE @,
                         !.Expiration = <<x.n>>],
                      permFailError("signature has expired"))
    ELSE LegacyKey([v EXCEPT
                      !.Time = IF Has(params, TagT) THEN <<t.n>> ELSE @,
                      !.Expiration = IF Has(params, TagX) THEN <<x.n>> ELSE @],
                   params, orc,
                   IF Has(params, TagQ)
                   THEN LegacyParseTagList(Tag(params, TagQ))
                   ELSE <<QueryMethodDNSTXT>>,
                   query(dns, Tag(params, TagD), Tag(params, TagS)))

\* verify, src/verify.go:142-168: the required tags, the i tag, the h tag.
LegacyIdentity(v, params, orc, dns, nowSec, headerKeys) ==
    IF \E j \in 1..Len(requiredTags) : ~Has(params, requiredTags[j])
    THEN LegacyFailed(v, permFailError("signature missing required tag"))
    ELSE IF /\ Has(params, TagI)
            /\ ~HasSuffix(Tag(params, TagI), <<64>> \o Tag(params, TagD))
            /\ ~HasSuffix(Tag(params, TagI), <<46>> \o Tag(params, TagD))
    THEN LegacyFailed(v, permFailError("domain mismatch"))
    ELSE IF ~\E j \in 1..Len(headerKeys) : ToLower(headerKeys[j]) = StrFrom
    THEN LegacyFailed([v EXCEPT !.Identifier =
                         IF Has(params, TagI) THEN Tag(params, TagI)
                         ELSE <<64>> \o Tag(params, TagD)],
                      permFailError("From field not signed"))
    ELSE LegacyTimes([v EXCEPT !.Identifier =
                        IF Has(params, TagI) THEN Tag(params, TagI)
                        ELSE <<64>> \o Tag(params, TagD),
                               !.HeaderKeys = headerKeys],
                     params, orc, dns, nowSec,
                     ParseInt(Tag(params, TagT)), ParseInt(Tag(params, TagX)))

\* verify of src/verify.go up to the body hash (lines 128-284) for the
\* signature number sig with the parsed tags pp.
LegacyTags(sig, pp, orc, dns, nowSec) ==
    IF pp.err
    THEN LegacyFailed(NewVerification(sig),
                      permFailError("malformed signature tags"))
    ELSE IF Tag(pp.params, TagV) # <<49>>
    THEN LegacyFailed(NewVerification(sig),
                      permFailError("incompatible signature version"))
    ELSE LegacyIdentity([NewVerification(sig) EXCEPT
                           !.Domain = Tag(pp.params, TagD)],
                        pp.params, orc, dns, nowSec,
                        LegacyParseTagList(Tag(pp.params, TagH)))
LegacyChecks(sig, sigValue, orc, dns, nowSec) ==
    LegacyTags(sig, parseHeaderParams(sigValue), orc, dns, nowSec)

\* The header hash input of src/verify.go:305-322.
RECURSIVE LegacyPickAll(_, _, _, _)
LegacyPickAll(hh, can, keys, picked) ==
    IF keys = <<>> THEN <<>>
    ELSE IF Pick(hh, IF ToLower(Head(keys)) \in DOMAIN picked
                     THEN picked[ToLower(Head(keys))] ELSE 0,
                 ToLower(Head(keys))) = <<>>
    THEN LegacyPickAll(hh, can, Tail(keys), picked)
    ELSE LegacyCanonicalizeHeader(
             can, Pick(hh, IF ToLower(Head(keys)) \in DOMAIN picked
                           THEN picked[ToLower(Head(keys))] ELSE 0,
                       ToLower(Head(keys))))
           \o LegacyPickAll(hh, can, Tail(keys),
                  [k \in DOMAIN picked \cup {ToLower(Head(keys))} |->
                      IF k = ToLower(Head(keys))
                      THEN (IF k \in DOMAIN picked THEN picked[k] ELSE 0) + 1
                      ELSE picked[k]])

\* The comparison of src/verify.go:299-328 that fails, "ok" when none does:
\* c is what LegacyChecks returned, sum the bytes the body hasher received.
LegacyCompare(c, hh, sigField, sum) ==
    IF Digest(c.hash, sum) # c.bodyHashed THEN "bodyhash"
    ELSE IF ~VerifierVerify(
                c.res,
                Digest(c.hash,
                       LegacyPickAll(hh, c.headerCan, c.verif.HeaderKeys,
                                     NoPicked)
                         \o TrimRight(LegacyCanonicalizeHeader(
                                          c.headerCan,
                                          removeSignature(sigField)),
                                      {13, 10})),
                c.sig)
    THEN "signature"
    ELSE "ok"

\* The error verify of src/verify.go returns after the comparisons (lines
\* 299-330).
LegacyFinish(outcome) ==
    IF outcome = "bodyhash" THEN permFailError("body hash did not verify")
    ELSE IF outcome = "signature"
    THEN permFailError("signature did not verify")
    ELSE NoErr

\* The writer verify hands to the body canonicalizer (src/verify.go:288).
LegacyBodyWriter(bodyLen) == IF bodyLen > 0 THEN bodyLen ELSE -1

\* A nil *Verification of make([]*Verification, n).
NilVerification == NewVerification(0)

\* The signature fields of hh in header order (src/verify.go:90-96).
LegacyScan(hh) ==
    LET S == {i \in 1..Len(hh) :
                ToLower(parseHeaderField(hh[i]).k) = ToLower(headerFieldName)}
    IN  [j \in 1..Cardinality(S) |->
            [i |-> Nth(S, j), v |-> parseHeaderField(hh[Nth(S, j)]).v]]

\* The state of verify for signature w.c.verif.sig once LegacyChecks
\* returned c.
LegacyChecked(w, c) ==
    IF c.err # NoErr
    THEN [w EXCEPT !.c = c, !.err = c.err, !.pc = "done"]
    ELSE [w EXCEPT !.c = c, !.pc = "body", !.hasCan = TRUE,
                   !.can = CanonicalizeBody(c.bodyCan),
                   !.hw = [N |-> LegacyBodyWriter(c.bodyLen), sum |-> <<>>]]

\* One Write of io.Copy on the body canonicalizer of w.
LegacyBodyWrite(w, data) ==
    LET r == LegacyCanonWrite(w.can, data)
    IN  [w EXCEPT !.can = r.c, !.hw = HashWrites(@, r.out),
                  !.seen = @ \o data, !.writes = @ + 1,
                  !.canOut = @ \o Flatten(r.out)]

\* wc.Close and the rest of verify (src/verify.go:296-330).
LegacyClosed(w, hw, out, outcome) ==
    [w EXCEPT !.hw = hw, !.canOut = @ \o Flatten(out),
              !.outcome = outcome, !.err = LegacyFinish(outcome),
              !.pc = "done"]
LegacyBodyClose(w, hh, sigField) ==
    LegacyClosed(w, HashWrites(w.hw, LegacyCanonClose(w.can).out),
                 LegacyCanonClose(w.can).out,
                 LegacyCompare(w.c, hh, sigField,
                               HashWrites(w.hw, LegacyCanonClose(w.can).out).sum))

\* What Verify of src/verify.go does with the result w of verify for
\* signature i (lines 117-123): the list, and the error it returns with it
\* at once when the error of verify is of no kind.
LegacyRecord(vs, i, w) ==
    IF w.err # NoErr /\ ~IsTempFail(w.err) /\ ~IsPermFail(w.err)
    THEN [verifications |-> vs, err |-> w.err, stop |-> TRUE]
    ELSE [verifications |-> [vs EXCEPT ![i] = [w.c.verif EXCEPT !.Err = w.err]],
          err |-> NoErr, stop |-> FALSE]

\* Verify of src/verify.go up to the loop over the signatures (lines
\* 83-108): readHeader, the scan for signatures, the list of nil results.
LegacyReadHeader ==
    /\ pc = "verify"
    /\ LET k == HeaderReads(rd.chunks, 1)
           r == readHeader(FlattenRange(rd.chunks, 1, k), TermError(rd.term))
           n == Len(LegacyScan(r.h))
       IN  /\ rd' = [rd EXCEPT
                       !.chunks = SubSeq(@, k + 1, Len(@)),
                       !.failed = IF \E j \in 1..k : rd.chunks[j] = FailedRead
                                  THEN TRUE ELSE r.err = ReadError]
           /\ IF r.err # NoErr
              THEN /\ pc' = "returned"
                   /\ retErr' = r.err
                   /\ UNCHANGED <<bufr, h, signatures, dchunk, wk,
                                  verifications, bodyRead>>
              ELSE /\ h' = r.h
                   /\ signatures' = LegacyScan(r.h)
                   /\ retErr' = NoErr
                   /\ bodyRead' = r.rest
                   /\ wk' = [i \in 1..n |-> NewWorker(i)]
                   /\ verifications' = [i \in 1..n |-> NilVerification]
                   /\ IF n > 1
                      THEN /\ pc' = "readAll"
                           /\ bufr' = <<>>
                           /\ dchunk' = r.rest
                      ELSE /\ pc' = "next"
                           /\ bufr' = r.rest
                           /\ dchunk' = <<>>
    /\ UNCHANGED <<world, dj, pw, chans, signing>>

\* One Read of ioutil.ReadAll(bufr) for a message of several signatures
\* (src/verify.go:100-106); dchunk is the buffer b.
LegacyReadAll ==
    /\ pc = "readAll"
    /\ rd' = NextRead(rd).rd
    /\ IF NextRead(rd).err = NoErr
       THEN /\ dchunk' = dchunk \o NextRead(rd).data
            /\ bodyRead' = bodyRead \o NextRead(rd).data
            /\ UNCHANGED <<pc, retErr, verifications>>
       ELSE IF CopyError(NextRead(rd).err) # NoErr
       THEN /\ pc' = "returned"
            /\ retErr' = NextRead(rd).err
            /\ verifications' = <<>>
            /\ UNCHANGED <<dchunk, bodyRead>>
       ELSE /\ pc' = "next"
            /\ UNCHANGED <<dchunk, retErr, verifications, bodyRead>>
    /\ UNCHANGED <<world, bufr, h, signatures, dj, pw, wk, chans, signing>>

\* The next round of the loop of src/verify.go:109: verify for signature
\* dj + 1 up to the body hash, and its result when it has returned.
LegacyStart ==
    /\ pc = "next"
    /\ dj < Len(signatures)
    /\ LET w == LegacyChecked(wk[dj + 1],
                              LegacyChecks(dj + 1, signatures[dj + 1].v,
                                           world.oracle, world.dns, world.now))
           res == LegacyRecord(verifications, dj + 1, w)
       IN  /\ wk' = [wk EXCEPT ![dj + 1] = w]
           /\ IF w.pc = "done"
              THEN /\ verifications' = res.verifications
                   /\ retErr' = res.err
                   /\ pc' = IF res.stop THEN "returned" ELSE "next"
                   /\ dj' = dj + 1
              ELSE /\ pc' = "body"
                   /\ UNCHANGED <<verifications, retErr, dj>>
    /\ UNCHANGED <<world, rd, bufr, h, signatures, dchunk, pw, chans,
                   bodyRead, signing>>

\* io.Copy(wc, r) and the rest of verify for signature dj + 1 of several
\* (src/verify.go:112-123, 293-330): the bytes.Reader gives the buffer b in
\* one Write, none when b is empty.
LegacyBuffered ==
    /\ pc = "body"
    /\ Len(signatures) > 1
    /\ LET w == LegacyBodyClose(IF dchunk = <<>> THEN wk[dj + 1]
                                ELSE LegacyBodyWrite(wk[dj + 1], dchunk),
                                h, h[signatures[dj + 1].i])
           res == LegacyRecord(verifications, dj + 1, w)
       IN  /\ wk' = [wk EXCEPT ![dj + 1] = w]
           /\ verifications' = res.verifications
           /\ retErr' = res.err
           /\ pc' = IF res.stop THEN "returned" ELSE "next"
    /\ dj' = dj + 1
    /\ UNCHANGED <<world, rd, bufr, h, signatures, dchunk, pw, chans,
                   bodyRead, signing>>

\* One round of io.Copy(wc, bufr) in verify for the only signature: the
\* buffered bytes, then one Read result after the other; at the end of the
\* reader the rest of verify and its result (src/verify.go:117-123).
LegacyRead ==
    /\ pc = "body"
    /\ Len(signatures) = 1
    /\ IF bufr # <<>>
       THEN /\ wk' = [wk EXCEPT ![1] = LegacyBodyWrite(@, bufr)]
            /\ bufr' = <<>>
            /\ UNCHANGED <<rd, pc, dj, verifications, retErr, bodyRead>>
       ELSE IF NextRead(rd).err = NoErr
       THEN /\ wk' = [wk EXCEPT ![1] = LegacyBodyWrite(@, NextRead(rd).data)]
            /\ rd' = NextRead(rd).rd
            /\ bodyRead' = bodyRead \o NextRead(rd).data
            /\ UNCHANGED <<bufr, pc, dj, verifications, retErr>>
       ELSE LET w == IF CopyError(NextRead(rd).err) # NoErr
                     THEN [wk[1] EXCEPT !.err = CopyError(NextRead(rd).err),
                                        !.pc = "done"]
                     ELSE LegacyBodyClose(wk[1], h, h[signatures[1].i])
                res == LegacyRecord(verifications, 1, w)
            IN  /\ wk' = [wk EXCEPT ![1] = w]
                /\ rd' = NextRead(rd).rd
                /\ verifications' = res.verifications
                /\ retErr' = res.err
                /\ pc' = IF res.stop THEN "returned" ELSE "next"
                /\ dj' = 1
                /\ UNCHANGED <<bufr, bodyRead>>
    /\ UNCHANGED <<world, h, signatures, dchunk, pw, chans, signing>>

\* return verifications, nil (src/verify.go:125).
LegacyReturn ==
    /\ pc = "next"
    /\ dj = Len(signatures)
    /\ pc' = "returned"
    /\ UNCHANGED <<world, rd, bufr, h, signatures, dchunk, dj, pw, wk, chans,
                   verifications, retErr, bodyRead, signing>>

\* The messages Verify of src/verify.go is given: those of Verify of
\* src/dkim/dkim.go, and MsgPlain signed with SHA-1.
LegacyMessages ==
    Messages \cup
    Arrivals(Sign(MsgPlain, Len(MsgPlain),
                  [Options(DomainX, Sel1, "k1", "relaxed", "relaxed")
                     EXCEPT !.Hash = "sha1"], Now, <<>>))

InitLegacy ==
    /\ pc = "verify"
    /\ signing = NoSigning
    /\ \E m \in LegacyMessages :
          \E r \in Readers(m.bytes) :
             VerifyInit(r, [msg |-> m.bytes, l |-> -1, oracle |-> m.oracle,
                            dns |-> DNS, now |-> Now, MaxVerifications |-> 0])

NextLegacy ==
    \/ LegacyReadHeader
    \/ LegacyReadAll
    \/ LegacyStart
    \/ LegacyBuffered
    \/ LegacyRead
    \/ LegacyReturn

SpecLegacy == InitLegacy /\ [][NextLegacy]_vars

(***************************************************************************)
(* The relaxed header canonicalizers (src/dkim/canonical.go:103-116 and    *)
(* src/canonical.go:74-99) given every short header field.                 *)
(***************************************************************************)

\* The most pieces a field value is made of.
MaxTokens == 4

\* The pieces of a value: a capital letter, a colon, SP, HT, and a line
\* break folded with SP or with HT.
FieldWords == {<<65>>, <<58>>}
FieldSpaces == {<<32>>, <<9>>, crlf \o <<32>>, crlf \o <<9>>}
FieldValues == UNION {[1..n -> FieldWords \cup FieldSpaces] : n \in 0..MaxTokens}

\* The field names "Ab", "Ab " and "Ab\t" as written before the colon.
FieldNames == {<<65, 98>>, <<65, 98, 32>>, <<65, 98, 9>>}

InitField ==
    /\ pc = "field"
    /\ signing = NoSigning
    /\ \E name \in FieldNames, tokens \in FieldValues :
          world = [name |-> name, tokens |-> tokens,
                   field |-> name \o <<58>> \o Flatten(tokens) \o crlf]
    /\ rd = [chunks |-> <<>>, term |-> "EOF", failed |-> FALSE]
    /\ wk = <<>>
    /\ bufr = <<>>
    /\ h = <<>>
    /\ signatures = <<>>
    /\ dchunk = <<>>
    /\ dj = 0
    /\ pw = <<>>
    /\ chans = <<>>
    /\ verifications = <<>>
    /\ retErr = NoErr
    /\ bodyRead = <<>>

\* relaxedCanonicalizer.CanonicalizeHeader of src/dkim/canonical.go.
RelaxedCanonicalizeHeader ==
    /\ pc = "field"
    /\ pc' = "canonical"
    /\ wk' = <<[by |-> "dkim", s |-> RelaxedHeader(world.field)]>>
    /\ UNCHANGED <<world, rd, bufr, h, signatures, dchunk, dj, pw, chans,
                   verifications, retErr, bodyRead, signing>>

\* relaxedCanonicalizer.CanonicalizeHeader of src/canonical.go.
LegacyRelaxedCanonicalizeHeader ==
    /\ pc = "field"
    /\ pc' = "canonical"
    /\ wk' = <<[by |-> "legacy", s |-> LegacyRelaxedHeader(world.field)]>>
    /\ UNCHANGED <<world, rd, bufr, h, signatures, dchunk, dj, pw, chans,
                   verifications, retErr, bodyRead, signing>>

NextField ==
    \/ RelaxedCanonicalizeHeader
    \/ LegacyRelaxedCanonicalizeHeader

SpecField == InitField /\ [][NextField]_vars

(***************************************************************************)
(* Each canonicalizer of src/dkim/canonical.go applied to its own output:  *)
(* the bodies of SpecCanon and the fields of SpecField, canonicalized,     *)
(* and the result canonicalized once more.                                 *)
(***************************************************************************)

InitAgain == InitCanon \/ InitField

\* simpleCanonicalizer.CanonicalizeHeader.
SimpleCanonicalizeHeader ==
    /\ pc = "field"
    /\ pc' = "canonical"
    /\ wk' = <<[by |-> "simple", s |-> CanonicalizeHeader("simple", world.field)]>>
    /\ UNCHANGED <<world, rd, bufr, h, signatures, dchunk, dj, pw, chans,
                   verifications, retErr, bodyRead, signing>>

\* A new body canonicalizer of the same kind is given what the first one
\* wrote, and closed.
CanonicalizeBodyAgain ==
    /\ pc = "closed"
    /\ pc' = "again"
    /\ LET w == CanonWrite(CanonicalizeBody(world.mode), wk[1].canOut)
           c == CanonClose(w.c)
       IN  wk' = Append(wk, [can |-> c.c, canOut |-> Flatten(w.out) \o Flatten(c.out)])
    /\ UNCHANGED <<world, rd, bufr, h, signatures, dchunk, dj, pw, chans,
                   verifications, retErr, bodyRead, signing>>

\* CanonicalizeHeader of the same canonicalizer on what it returned.
CanonicalizeHeaderAgain ==
    /\ pc = "canonical"
    /\ wk[1].by \in {"simple", "dkim"}
    /\ pc' = "again"
    /\ wk' = Append(wk, [by |-> wk[1].by,
                         s  |-> CanonicalizeHeader(IF wk[1].by = "dkim"
                                                   THEN "relaxed" ELSE "simple",
                                                   wk[1].s)])
    /\ UNCHANGED <<world, rd, bufr, h, signatures, dchunk, dj, pw, chans,
                   verifications, retErr, bodyRead, signing>>

NextAgain ==
    \/ CanonicalizerWrite
    \/ CanonicalizerClose
    \/ RelaxedCanonicalizeHeader
    \/ SimpleCanonicalizeHeader
    \/ CanonicalizeBodyAgain
    \/ CanonicalizeHeaderAgain

SpecAgain == InitAgain /\ [][NextAgain]_vars

(***************************************************************************)
(* The formatters of the DKIM-Signature field given tag maps whose values  *)
(* are shorter and longer than a line, and parseHeaderParams on what they  *)
(* return.                                                                 *)
(***************************************************************************)

\* The longest b value of a tag map.
MaxSig == 80

\* n times the byte c.
Rep(c, n) == [i \in 1..n |-> c]

\* The tags "d", "h" and "b".
TagNameD == <<100>>
TagNameH == <<104>>
TagNameB == <<98>>

\* The lengths of the d values, and the lengths of the header names of the
\* h values.
DomainLens == {5, 71, 72, 80}
HeaderLens == {<<4>>, <<4, 2, 7>>, <<30, 30, 30>>, <<4, 76, 2>>}

\* The tag maps: d, with or without h, with or without b.
TagMaps ==
    {[k \in {TagNameD} \cup HB |->
        IF k = TagNameD THEN Rep(120, ld)
        ELSE IF k = TagNameH
        THEN Join([j \in 1..Len(lh) |-> Rep(110, lh[j])], <<58>>)
        ELSE Rep(66, lb)] :
       ld \in DomainLens, lh \in HeaderLens, lb \in 0..MaxSig,
       HB \in SUBSET {TagNameH, TagNameB}}

InitFormat ==
    /\ pc = "format"
    /\ signing = NoSigning
    /\ \E params \in TagMaps : world = [params |-> params]
    /\ rd = [chunks |-> <<>>, term |-> "EOF", failed |-> FALSE]
    /\ wk = <<>>
    /\ bufr = <<>>
    /\ h = <<>>
    /\ signatures = <<>>
    /\ dchunk = <<>>
    /\ dj = 0
    /\ pw = <<>>
    /\ chans = <<>>
    /\ verifications = <<>>
    /\ retErr = NoErr
    /\ bodyRead = <<>>

\* One formatter has returned text for the tag map.
Formatted(by, text) ==
    /\ pc = "format"
    /\ pc' = "formatted"
    /\ wk' = <<[by |-> by, text |-> text]>>
    /\ UNCHANGED <<world, rd, bufr, h, signatures, dchunk, dj, pw, chans,
                   verifications, retErr, bodyRead, signing>>

\* formatHeaderParams of src/header.go:106.
FormatHeaderParams == Formatted("params", formatHeaderParams(world.params))

\* formatHeaderParams of src/unnamed/part_003:133.
FormatFoldedHeaderParams == Formatted("foldedparams", FoldedHeaderParams(world.params))

\* formatSignature of src/sign.go:219.
FormatSignature == Formatted("signature", formatSignature(world.params))

\* formatSignature over formatHeaderParams of src/unnamed/part_003.
FormatFoldedSignature == Formatted("foldedsignature", FoldedSignature(world.params))

\* The tags of the tag map as DKIMSignature takes them: d plain, h with
\* its names and the delimiter ":", b in base64.
TagsOf(params) ==
    <<NewDKIMTagPlain(TagNameD, params[TagNameD])>>
        \o (IF TagNameH \in DOMAIN params
            THEN <<NewDKIMTagDelim(TagNameH, Split(params[TagNameH], 58), <<58>>)>>
            ELSE <<>>)
        \o (IF TagNameB \in DOMAIN params
            THEN <<NewDKIMTagBase64(TagNameB, params[TagNameB])>>
            ELSE <<>>)

\* AddTag for tags[j..].
RECURSIVE AddTags(_, _, _)
AddTags(sig, tags, j) ==
    IF j > Len(tags) THEN sig ELSE AddTags(AddTag(sig, tags[j]), tags, j + 1)

\* NewDKIMSignature, then AddPlainTag, AddDelimTag and AddBase64Tag.
FormatDKIMSignature ==
    Formatted("DKIMSignature", AddTags(NewDKIMSignature, TagsOf(world.params), 1).Buf)

\* parseHeaderParams on the formatted tags; of a whole field, on the value
\* parseHeaderField returns for it.
ParseFormatted ==
    /\ pc = "formatted"
    /\ pc' = "parsed"
    /\ wk' = Append(wk, parseHeaderParams(
                           IF wk[1].by \in {"params", "foldedparams"}
                           THEN wk[1].text
                           ELSE parseHeaderField(wk[1].text).v))
    /\ UNCHANGED <<world, rd, bufr, h, signatures, dchunk, dj, pw, chans,
                   verifications, retErr, bodyRead, signing>>

NextFormat ==
    \/ FormatHeaderParams
    \/ FormatFoldedHeaderParams
    \/ FormatSignature
    \/ FormatFoldedSignature
    \/ FormatDKIMSignature
    \/ ParseFormatted

SpecFormat == InitFormat /\ [][NextFormat]_vars

(***************************************************************************)
(* verify (src/dkim/dkim.go:433-645) for signatures that fail at each of   *)
(* its steps: a tag, the key, the body hash, the signature.                *)
(***************************************************************************)

\* "foo": a query method nobody knows.
StrFoo == <<102, 111, 111>>

\* The options of the signers of x.org: for s1 with the defaults, with
\* "q=dns/txt:dns/txt", with "q=foo", with an expiration in the past and
\* with sha1; and for s3, whose name server times out, with sha1.
OrderOptions ==
    LET o == Options(DomainX, Sel1, "k1", "relaxed", "simple")
    IN  {o,
         [o EXCEPT !.QueryMethods =
                      [isNil |-> FALSE,
                       list |-> <<QueryMethodDNSTXT, QueryMethodDNSTXT>>]],
         [o EXCEPT !.QueryMethods = [isNil |-> FALSE, list |-> <<StrFoo>>]],
         [o EXCEPT !.Expiration = Now - 1],
         [o EXCEPT !.Hash = "sha1"],
         [o EXCEPT !.Selector = Sel3, !.Hash = "sha1"]}

\* What Sign writes for MsgPlain as it arrives: unchanged, with another
\* body, with another body and another header, and each of them below a
\* signature of version 2.
OrderArrivals(signed) ==
    LET A == {signed.out, OtherBody(signed.out),
              OtherHeader(OtherBody(signed.out))}
    IN  {Message(m, signed.oracle) : m \in A}
          \cup {Message(FieldV2 \o m, signed.oracle) : m \in A}

OrderMessages ==
    UNION {OrderArrivals(Sign(MsgPlain, Len(MsgPlain), o, Now, <<>>)) :
             o \in OrderOptions}

\* The readers of m: its bytes in one piece or cut in the body, then EOF or
\* an error.
OrderReaders(m) ==
    {[chunks |-> Chunks(m, C), term |-> t, failed |-> FALSE] :
        C \in {{}, {Len(m) - 3}}, t \in {"EOF", "ERR"}}

InitOrder ==
    /\ pc = "verify"
    /\ signing = NoSigning
    /\ \E m \in OrderMessages :
          \E r \in OrderReaders(m.bytes) :
             VerifyInit(r, [msg |-> m.bytes, l |-> -1, oracle |-> m.oracle,
                            dns |-> DNS, now |-> Now,
                            MaxVerifications |-> 0])

NextOrder ==
    \/ ReadHeader
    \/ SingleStart
    \/ SingleRead
    \/ DriverWrite
    \/ DriverFetch
    \/ DriverClose
    \/ DriverCollect
    \/ DriverReturn
    \/ \E i \in 1..2 : WorkerStart(i)
    \/ \E i \in 1..2 : WorkerRead(i)
    \/ \E i \in 1..2 : WorkerDrain(i)
    \/ \E i \in 1..2 : WorkerSend(i)

SpecOrder == InitOrder /\ [][NextOrder]_vars

(***************************************************************************)
(* A headerPicker (src/header.go:137-168) over every short header, asked   *)
(* for keys in any order.                                                  *)
(***************************************************************************)

\* newHeaderPicker.
newHeaderPicker(hh) == [h |-> hh, picked |-> NoPicked]

\* p.picked[key]: 0 for a key the map does not hold.
PickedAt(p, key) == IF key \in DOMAIN p.picked THEN p.picked[key] ELSE 0

\* The loop of Pick from the field number i upward in the header, with at
\* fields named key still to pass: the number of the field it returns, 0
\* when it leaves the loop at the top.
RECURSIVE PickLoopMutant(_, _, _, _)
PickLoopMutant(hh, i, at, key) ==
    IF i < 1 THEN 0
    ELSE IF ToLower(parseHeaderField(hh[i]).k) # key
    THEN PickLoopMutant(hh, i - 1, at, key)
    ELSE IF at = 0 THEN i
    ELSE PickLoopMutant(hh, i - 1, at, key)
RECURSIVE PickLoop(_, _, _, _)
PickLoop(hh, i, at, key) ==
    IF i < 1 THEN 0
    ELSE IF ToLower(parseHeaderField(hh[i]).k) # key
    THEN PickLoop(hh, i - 1, at, key)
    ELSE IF at = 0 THEN i
    ELSE PickLoop(hh, i - 1, at - 1, key)

\* headerPicker.Pick(key): the field returned, its number in the header (0
\* for none), and the picker after the call.
PickerPick(p, key) ==
    LET k == ToLower(key)
        i == PickLoop(p.h, Len(p.h), PickedAt(p, k), k)
    IN  IF i = 0 THEN [kv |-> <<>>, i |-> 0, p |-> p]
        ELSE [kv |-> p.h[i], i |-> i,
              p |-> [p EXCEPT !.picked =
                       [x \in DOMAIN p.picked \cup {k} |->
                          IF x = k THEN PickedAt(p, k) + 1 ELSE p.picked[x]]]]

\* The most fields of a header and the most calls of Pick.
MaxHeader == 3
MaxPicks == 4

\* "To: a\r\n", "to: b\r\n", "TO : c\r\n", "From: d\r\n".
PickFields ==
    {<<84, 111, 58, 32, 97, 13, 10>>, <<116, 111, 58, 32, 98, 13, 10>>,
     <<84, 79, 32, 58, 32, 99, 13, 10>>,
     <<70, 114, 111, 109, 58, 32, 100, 13, 10>>}

\* "to", "To", "FROM", "cc".
PickKeys == {<<116, 111>>, <<84, 111>>, <<70, 82, 79, 77>>, <<99, 99>>}

InitPick ==
    /\ pc = "pick"
    /\ signing = NoSigning
    /\ \E n \in 0..MaxHeader : \E hh \in [1..n -> PickFields] :
          /\ world = [header |-> hh]
          /\ wk = <<[p |-> newHeaderPicker(hh), calls |-> <<>>]>>
    /\ rd = [chunks |-> <<>>, term |-> "EOF", failed |-> FALSE]
    /\ bufr = <<>>
    /\ h = <<>>
    /\ signatures = <<>>
    /\ dchunk = <<>>
    /\ dj = 0
    /\ pw = <<>>
    /\ chans = <<>>
    /\ verifications = <<>>
    /\ retErr = NoErr
    /\ bodyRead = <<>>

\* One call of Pick; calls keeps the key, what was returned and the picker
\* before and after.
HeaderPickerPick ==
    /\ pc = "pick"
    /\ Len(wk[1].calls) < MaxPicks
    /\ \E key \in PickKeys :
          LET r == PickerPick(wk[1].p, key)
          IN  wk' = <<[p |-> r.p,
                       calls |-> Append(wk[1].calls,
                                        [key |-> key, kv |-> r.kv, i |-> r.i,
                                         before |-> wk[1].p, after |-> r.p])]>>
    /\ UNCHANGED <<world, rd, bufr, pc, h, signatures, dchunk, dj, pw, chans,
                   verifications, retErr, bodyRead, signing>>

NextPick == HeaderPickerPick

SpecPick == InitPick /\ [][NextPick]_vars

(***************************************************************************)
(* Sign without HeaderKeys (src/sign.go:154-190) of messages with every    *)
(* short header, names repeated in any case of the letters.                *)
(***************************************************************************)

\* "hi\r\n".
BodyHi == <<104, 105, 13, 10>>

\* The message with the header fields hh and the body BodyHi.
MessageOf(hh) == Flatten(hh) \o crlf \o BodyHi

InitKeys ==
    /\ pc = "sign"
    /\ \E n \in 0..MaxHeader, hc \in {"simple", "relaxed"},
          keys \in {KeysNil, KeysFrom} :
          \E hh \in [1..n -> PickFields] :
             signing = [options |-> [Options(DomainX, Sel1, "k1", hc, "simple")
                                       EXCEPT !.HeaderKeys = keys],
                        msg |-> MessageOf(hh), chunk |-> Len(MessageOf(hh)),
                        err |-> NoErr, done |-> FALSE, read |-> 0,
                        out |-> <<>>]
    /\ VerifyInit([chunks |-> <<>>, term |-> "EOF", failed |-> FALSE],
                  [msg |-> <<>>, l |-> -1, oracle |-> <<>>,
                   dns |-> SignerDNS(Sel1), now |-> Now,
                   MaxVerifications |-> 0])

NextKeys ==
    \/ DoSign
    \/ ReadHeader
    \/ SingleStart
    \/ SingleRead

SpecKeys == InitKeys /\ [][NextKeys]_vars

(***************************************************************************)
(* Sign with an identifier (src/sign.go:165-167) whose local part may hold *)
(* "b=", and verify's removeSignature (src/dkim/dkim.go:631-636) on the    *)
(* field Sign wrote.                                                       *)
(***************************************************************************)

\* "b=1@x.org" and "ab =c@x.org": identifiers of the domain x.org.
IdB == <<98, 61, 49, 64, 120, 46, 111, 114, 103>>
IdAB == <<97, 98, 32, 61, 99, 64, 120, 46, 111, 114, 103>>

InitRemove ==
    /\ pc = "sign"
    /\ \E n \in 0..2, hc \in {"simple", "relaxed"},
          id \in {<<>>, IdUser, IdB, IdAB} :
          \E hh \in [1..n -> PickFields] :
             signing = [options |-> [Options(DomainX, Sel1, "k1", hc, "simple")
                                       EXCEPT !.Identifier = id],
                        msg |-> MessageOf(hh), chunk |-> Len(MessageOf(hh)),
                        err |-> NoErr, done |-> FALSE, read |-> 0,
                        out |-> <<>>]
    /\ VerifyInit([chunks |-> <<>>, term |-> "EOF", failed |-> FALSE],
                  [msg |-> <<>>, l |-> -1, oracle |-> <<>>,
                   dns |-> SignerDNS(Sel1), now |-> Now,
                   MaxVerifications |-> 0])

NextRemove ==
    \/ DoSign
    \/ ReadHeader
    \/ SingleStart
    \/ SingleRead

SpecRemove == InitRemove /\ [][NextRemove]_vars

(***************************************************************************)
(* readHeader and writeHeader (src/header.go:47-78) on every short input.  *)
(***************************************************************************)

\* The most pieces of an input.
MaxRaw == 6

\* The inputs: "A", SP, CR LF, LF and CR in any order.
RawTokens == {<<65>>, <<32>>, <<13, 10>>, <<10>>, <<13>>}
RawInputs ==
    UNION {{Flatten(t) : t \in [1..n -> RawTokens]} : n \in 0..MaxRaw}

InitRaw ==
    /\ pc = "raw"
    /\ signing = NoSigning
    /\ \E m \in RawInputs : world = [msg |-> m]
    /\ rd = [chunks |-> <<>>, term |-> "EOF", failed |-> FALSE]
    /\ wk = <<>>
    /\ bufr = <<>>
    /\ h = <<>>
    /\ signatures = <<>>
    /\ dchunk = <<>>
    /\ dj = 0
    /\ pw = <<>>
    /\ chans = <<>>
    /\ verifications = <<>>
    /\ retErr = NoErr
    /\ bodyRead = <<>>

\* readHeader on a reader of the input: the fields, the error, and the
\* bytes left in the reader.
ReadRawHeader ==
    /\ pc = "raw"
    /\ pc' = "read"
    /\ h' = readHeader(world.msg, EOFError).h
    /\ retErr' = readHeader(world.msg, EOFError).err
    /\ bodyRead' = readHeader(world.msg, EOFError).rest
    /\ UNCHANGED <<world, rd, bufr, signatures, dchunk, dj, pw, wk, chans,
                   verifications, signing>>

\* writeHeader of the fields read.
WriteRawHeader ==
    /\ pc = "read"
    /\ retErr = NoErr
    /\ pc' = "written"
    /\ wk' = <<[out |-> writeHeader(h)]>>
    /\ UNCHANGED <<world, rd, bufr, h, signatures, dchunk, dj, pw, chans,
                   verifications, retErr, bodyRead, signing>>

NextRaw ==
    \/ ReadRawHeader
    \/ WriteRawHeader

SpecRaw == InitRaw /\ [][NextRaw]_vars

(***************************************************************************)
(* Verify (src/dkim/dkim.go:346-378) of inputs that end before the empty   *)
(* line, and of whole messages.                                            *)
(***************************************************************************)

\* The most pieces of an input without signature.
MaxIncomplete == 4

\* The message m cut off in its first line, inside the last line of its
\* header, and after that line.
Truncated(m) ==
    LET e == Len(m) - Len(readHeader(m, EOFError).rest)
    IN  {SubSeq(m, 1, k) : k \in {20, e - 5, e - 3, e - 2}}

\* The inputs: every short one, and the messages signed once and twice,
\* whole and cut off.
IncompleteInputs ==
    UNION {{Flatten(t) : t \in [1..n -> RawTokens]} : n \in 0..MaxIncomplete}
      \cup {Signed1.out, Signed2.out}
      \cup Truncated(Signed1.out) \cup Truncated(Signed2.out)

\* The readers of m: its bytes in one piece or in two, then EOF or an
\* error.
IncompleteReaders(m) ==
    {[chunks |-> Chunks(m, C), term |-> t, failed |-> FALSE] :
        C \in {{}} \cup {{k} : k \in {Len(m) - 2} \cap (1..(Len(m) - 1))},
        t \in {"EOF", "ERR"}}

InitIncomplete ==
    /\ pc = "verify"
    /\ signing = NoSigning
    /\ \E m \in IncompleteInputs :
          \E r \in IncompleteReaders(m) :
             VerifyInit(r, [msg |-> m, l |-> -1, oracle |-> Signed2.oracle,
                            dns |-> DNS, now |-> Now,
                            MaxVerifications |-> 0])

NextIncomplete ==
    \/ ReadHeader
    \/ SingleStart
    \/ SingleRead
    \/ DriverWrite
    \/ DriverFetch
    \/ DriverClose
    \/ DriverCollect
    \/ DriverReturn
    \/ \E i \in 1..2 : WorkerStart(i)
    \/ \E i \in 1..2 : WorkerRead(i)
    \/ \E i \in 1..2 : WorkerDrain(i)
    \/ \E i \in 1..2 : WorkerSend(i)

SpecIncomplete == InitIncomplete /\ [][NextIncomplete]_vars

(***************************************************************************)
(* parseHeaderParams (src/header.go:89-104) on every short tag list, and   *)
(* verify (src/dkim/dkim.go:433-439) of a signature with that value.       *)
(***************************************************************************)

\* The most bytes of a tag list.
MaxParams == 6

\* The tag lists: the bytes "a", "1", "=", ";" and SP in any order.
ParamTexts == UNION {[1..n -> {97, 49, 61, 59, 32}] : n \in 0..MaxParams}

InitParams ==
    /\ pc = "params"
    /\ signing = NoSigning
    /\ \E t \in ParamTexts : world = [s |-> t, dns |-> DNS, now |-> Now]
    /\ rd = [chunks |-> <<>>, term |-> "EOF", failed |-> FALSE]
    /\ wk = <<>>
    /\ bufr = <<>>
    /\ h = <<>>
    /\ signatures = <<>>
    /\ dchunk = <<>>
    /\ dj = 0
    /\ pw = <<>>
    /\ chans = <<>>
    /\ verifications = <<>>
    /\ retErr = NoErr
    /\ bodyRead = <<>>

\* parseHeaderParams(s).
ParseHeaderParams ==
    /\ pc = "params"
    /\ pc' = "parsed"
    /\ wk' = <<parseHeaderParams(world.s)>>
    /\ UNCHANGED <<world, rd, bufr, h, signatures, dchunk, dj, pw, chans,
                   verifications, retErr, bodyRead, signing>>

\* verify of a signature field with the value s, up to the body.
VerifyParams ==
    /\ pc = "parsed"
    /\ pc' = "verified"
    /\ wk' = Append(wk, verifyChecks(1, world.s, <<>>, world.dns, world.now))
    /\ UNCHANGED <<world, rd, bufr, h, signatures, dchunk, dj, pw, chans,
                   verifications, retErr, bodyRead, signing>>

NextParams ==
    \/ ParseHeaderParams
    \/ VerifyParams

SpecParams == InitParams /\ [][NextParams]_vars

(***************************************************************************)
(* limitedWriter.Write (src/dkim/canonical.go:177), call after call, for   *)
(* every budget and every input.                                           *)
(***************************************************************************)

\* The largest budget, the longest input of one Write, the most Writes.
MaxBudget == 4
MaxWrite == 3
MaxWrites == 3

\* The inputs of one Write.
WriteInputs == UNION {[1..n -> {97, 98}] : n \in 0..MaxWrite}

InitWriter ==
    /\ pc = "writer"
    /\ signing = NoSigning
    /\ \E N \in 0..MaxBudget : world = [N |-> N]
    /\ rd = [chunks |-> <<>>, term |-> "EOF", failed |-> FALSE]
    /\ wk = <<>>
    /\ bufr = <<>>
    /\ h = <<>>
    /\ signatures = <<>>
    /\ dchunk = <<>>
    /\ dj = 0
    /\ pw = <<>>
    /\ chans = <<>>
    /\ verifications = <<>>
    /\ retErr = NoErr
    /\ bodyRead = <<>>

\* The budget the next Write finds.
BudgetLeft == IF wk = <<>> THEN world.N ELSE wk[Len(wk)].N

\* w.Write(b): the record keeps b and the budget before the call with
\* what LimitedWrite gives.
LimitedWriterWrite ==
    /\ pc = "writer"
    /\ Len(wk) < MaxWrites
    /\ \E b \in WriteInputs :
          wk' = Append(wk, [b |-> b, before |-> BudgetLeft]
                              @@ LimitedWrite(BudgetLeft, b))
    /\ UNCHANGED <<world, rd, bufr, pc, h, signatures, dchunk, dj, pw, chans,
                   verifications, retErr, bodyRead, signing>>

NextWriter == LimitedWriterWrite

SpecWriter == InitWriter /\ [][NextWriter]_vars

(***************************************************************************)
(* DKIMSignature.AddTag (src/dkim/dkim.go:195) one iteration at a time:    *)
(* pc "AddTag" is the head of its loop, pc "GetString" the head of the     *)
(* loop of GetString, pc "added" its return.  wk[1] is [Buf, LineLen, Idx, *)
(* end, end_max, passes], passes the parity of the number of passes made   *)
(* of the loop of GetString.                                               *)
(***************************************************************************)

\* The longest value of a tag.
MaxTagValue == 90

\* The names of the tags: none and "h".  The lengths of the plain and of
\* the base64 values, the lengths of the names of the delimited values,
\* and the lengths of the line AddTag finds.
AddTagNames == {<<>>, TagNameH}
ValueLens == {0, 3, 70, MaxTagValue}
DelimLens == {<<>>, <<4, 2>>, <<30, 30, 30>>, <<MaxTagValue>>}
LineLens == {0, 1, 16, 50, 77, 78, MaxTagValue}

\* The tags: plain, delimited by ":", base64.
AddTagTags ==
    {NewDKIMTagPlain(k, Rep(120, n)) : k \in AddTagNames, n \in ValueLens}
      \cup {NewDKIMTagDelim(k, [j \in 1..Len(l) |-> Rep(110, l[j])], <<58>>) :
               k \in AddTagNames, l \in DelimLens}
      \cup {NewDKIMTagBase64(k, Rep(66, n)) : k \in AddTagNames, n \in ValueLens}

\* A buffer whose last line has L bytes.
LineOf(L) == IF L = 0 THEN <<>> ELSE <<32>> \o Rep(120, L - 1)

InitAddTag ==
    /\ pc = "AddTag"
    /\ signing = NoSigning
    /\ \E t \in AddTagTags, L \in LineLens :
          /\ world = [t |-> t, LineLen |-> L]
          /\ wk = <<[Buf |-> LineOf(L), LineLen |-> L, Idx |-> 0,
                     end |-> 0, end_max |-> 0, passes |-> 0]>>
    /\ rd = [chunks |-> <<>>, term |-> "EOF", failed |-> FALSE]
    /\ bufr = <<>>
    /\ h = <<>>
    /\ signatures = <<>>
    /\ dchunk = <<>>
    /\ dj = 0
    /\ pw = <<>>
    /\ chans = <<>>
    /\ verifications = <<>>
    /\ retErr = NoErr
    /\ bodyRead = <<>>

\* The state of AddTag after sig has become s and tag.Idx has become Idx.
AddTagState(s, Idx) ==
    [Buf |-> s.Buf, LineLen |-> s.LineLen, Idx |-> Idx, end |-> 0, end_max |-> 0,
     passes |-> 0]

\* sig.Buf.WriteString("\r\n "); sig.LineLen = 1; continue
AddTagFold(a) ==
    [Buf |-> a.Buf \o <<13, 10, 32>>, LineLen |-> 1, Idx |-> a.Idx,
     end |-> 0, end_max |-> 0, passes |-> 0]

\* One pass of the loop of AddTag from its head up to the loop of
\* GetString: the return when the tag is done, the fold when the line has
\* no room, the whole rest of the tag when it fits in max_chars.
AddTagIter ==
    /\ pc = "AddTag"
    /\ LET a == wk[1]
           t == world.t
           max_chars == 80 - a.LineLen - 1 - 2
       IN  IF a.Idx = Len(t.TagAndValue)
           THEN pc' = "added" /\ wk' = wk
           ELSE IF max_chars <= 0
           THEN pc' = "AddTag" /\ wk' = <<AddTagFold(a)>>
           ELSE IF Len(t.TagAndValue) - a.Idx <= max_chars
           THEN /\ pc' = "AddTag"
                /\ wk' = <<AddTagState(
                              TagWritten(a, t,
                                         SubSeq(t.TagAndValue, a.Idx + 1,
                                                Len(t.TagAndValue)),
                                         Len(t.TagAndValue)),
                              Len(t.TagAndValue))>>
           ELSE /\ pc' = "GetString"
                /\ wk' = <<[a EXCEPT !.end = a.Idx,
                                     !.end_max = a.Idx + max_chars]>>
    /\ UNCHANGED <<world, rd, bufr, h, signatures, dchunk, dj, pw, chans,
                   verifications, retErr, bodyRead, signing>>

\* The loop of GetString can go on: end < end_max and the next break is
\* not after end_max.
GetStringGoesOn(t, a) ==
    IF a.end < a.end_max THEN NextBreak(t, a.end, a.end_max) <= a.end_max
    ELSE FALSE

\* One pass of the loop of GetString: end = idx.
GetStringIter ==
    /\ pc = "GetString"
    /\ GetStringGoesOn(world.t, wk[1])
    /\ pc' = "GetString"
    /\ wk' = <<[wk[1] EXCEPT !.end = NextBreak(world.t, wk[1].end, wk[1].end_max),
                             !.passes = (wk[1].passes + 1) % 2]>>
    /\ UNCHANGED <<world, rd, bufr, h, signatures, dchunk, dj, pw, chans,
                   verifications, retErr, bodyRead, signing>>

\* The loop of GetString is left and AddTag goes on to the end of its
\* pass: the bytes up to end written, or a fold when there are none and
\* the line is not a new one, or the rest of the tag.
GetStringReturn ==
    /\ pc = "GetString"
    /\ ~GetStringGoesOn(world.t, wk[1])
    /\ pc' = "AddTag"
    /\ LET a == wk[1]
           t == world.t
       IN  IF a.Idx < a.end
           THEN wk' = <<AddTagState(
                           TagWritten(a, t, SubSeq(t.TagAndValue, a.Idx + 1, a.end),
                                      a.end),
                           a.end)>>
           ELSE IF a.LineLen > 1
           THEN wk' = <<AddTagFold(a)>>
           ELSE wk' = <<AddTagState(
                           TagWritten(a, t,
                                      SubSeq(t.TagAndValue, a.Idx + 1,
                                             Len(t.TagAndValue)),
                                      Len(t.TagAndValue)),
                           Len(t.TagAndValue))>>
    /\ UNCHANGED <<world, rd, bufr, h, signatures, dchunk, dj, pw, chans,
                   verifications, retErr, bodyRead, signing>>

NextAddTag ==
    \/ AddTagIter
    \/ GetStringIter
    \/ GetStringReturn

\* AddTag runs on one goroutine: a pass that can be taken is taken.
SpecAddTag == InitAddTag /\ [][NextAddTag]_vars /\ WF_vars(NextAddTag)

(***************************************************************************)
(* Properties of VerifyWithOptions and parallelVerify.                     *)
(***************************************************************************)

\* The number of header fields of the message m whose name is
\* DKIM-Signature in any case of the letters.
NumSignatureFields(m) ==
    LET hh == readHeader(m, EOFError).h
    IN  Cardinality({i \in 1..Len(hh) :
                       ToLower(parseHeaderField(hh[i]).k) =
                           ToLower(headerFieldName)})

\* The message has a header that ends with an empty line.
HasHeader(m) == readHeader(m, EOFError).err = NoErr

\* Verify has returned for a message with a complete header and no Read of
\* the caller's reader has failed.
ReturnedForMessage ==
    /\ pc = "returned"
    /\ ~rd.failed
    /\ HasHeader(world.msg)

\* C2: once Verify has returned for a message its reader delivered, there
\* is no top-level error and the list has exactly one Verification for each
\* header field whose name is DKIM-Signature in any case of the letters;
\* for a message without such a field the list is empty.
C2_OneVerificationPerSignatureField ==
    ReturnedForMessage =>
        /\ retErr = NoErr
        /\ Len(verifications) = NumSignatureFields(world.msg)

\* C2, its case: Verify has returned two Verifications for a message with
\* two signature fields, one of them named in lower case.
C2_Witness ==
    /\ ReturnedForMessage
    /\ NumSignatureFields(world.msg) = 2
    /\ Len(verifications) = 2
    /\ \E i \in 1..Len(h) : /\ parseHeaderField(h[i]).k # headerFieldName
                            /\ ToLower(parseHeaderField(h[i]).k) =
                                   ToLower(headerFieldName)

\* The error e is of exactly one of the three kinds.
ExactlyOneKind(e) ==
    Cardinality({k \in {"perm", "temp", "fail"} :
                   \/ k = "perm" /\ IsPermFail(e)
                   \/ k = "temp" /\ IsTempFail(e)
                   \/ k = "fail" /\ isFail(e)}) = 1

\* C3: every Verification Verify has returned has the Err none or an Err
\* that is exactly one of a permanent failure, a temporary failure and a
\* signature failure; an error of another kind is never in Err.
C3_ReturnedErrIsClassified ==
    pc = "returned" =>
        \A i \in 1..Len(verifications) :
            \/ verifications[i].Err = NoErr
            \/ ExactlyOneKind(verifications[i].Err)

\* C3, its case: Verify has returned a temporary failure for one signature
\* and a signature failure for another.
C3_Witness ==
    /\ pc = "returned"
    /\ \E i, j \in 1..Len(verifications) :
          /\ IsTempFail(verifications[i].Err)
          /\ isFail(verifications[j].Err)

\* C4: a signature whose recomputed body hash differs from its bh tag, or
\* whose cryptographic signature check fails, has in its Verification an Err
\* that is a signature failure: not none, and IsPermFail and IsTempFail are
\* both false for it.
C4_MismatchIsSignatureFailure ==
    pc = "returned" =>
        \A i \in 1..Len(verifications) :
            (/\ verifications[i].sig # 0
             /\ wk[verifications[i].sig].outcome \in {"bodyhash", "signature"})
            => /\ verifications[i].Err # NoErr
               /\ ~IsPermFail(verifications[i].Err)
               /\ ~IsTempFail(verifications[i].Err)

\* C5: once Verify has returned after a Read of the caller's reader failed
\* with an error other than EOF, its top-level error is that error and it
\* has returned no Verification.
C5_ReaderErrorIsReturned ==
    (pc = "returned" /\ rd.failed) =>
        /\ retErr = ReadError
        /\ verifications = <<>>

\* C6: in the list Verify has returned without error, element i is the
\* result of verify for the i-th signature field from the top of the
\* header, and the list is as long as the list of signatures, whatever the
\* order in which the workers ran.
C6_ResultsInHeaderOrder ==
    (pc = "returned" /\ retErr = NoErr) =>
        /\ Len(verifications) = Len(signatures)
        /\ \A i \in 1..Len(signatures) :
              /\ verifications[i] = [wk[i].c.verif EXCEPT !.Err = wk[i].err]
              /\ verifications[i].sig = i
        /\ \A i, j \in 1..Len(signatures) :
              i < j => signatures[i].i < signatures[j].i

\* C6, its case: three signatures with different results, and the worker of
\* the last one was the first to send its result.
C6_Witness ==
    /\ pc = "returned"
    /\ retErr = NoErr
    /\ Len(verifications) = 3
    /\ verifications[1].Err # verifications[3].Err
    /\ wk[3].rank = 1

\* Signature i has a body canonicalizer that was closed.
BodyClosed(i) == wk[i].hasCan /\ wk[i].pc \in {"drain", "send", "done"}

\* C7: with several signatures, what a body canonicalizer has received is
\* at any time the beginning of the bytes read from the caller's reader
\* after the header, and when it is closed it has received all of them and
\* the reader is at its end: the same bytes for every signature.
C7_SameBodyForEverySignature ==
    Len(signatures) > 1 =>
        \A i \in 1..Len(wk) :
            /\ IsPrefix(wk[i].seen, bodyRead)
            /\ BodyClosed(i) =>
                  /\ wk[i].seen = bodyRead
                  /\ rd.chunks = <<>>
                  /\ \A j \in 1..Len(wk) :
                        BodyClosed(j) => wk[j].seen = wk[i].seen

\* C7, its case: two canonicalizers of different kinds were closed after a
\* body that came in several Writes.
C7_Witness ==
    /\ Len(pw) >= 2
    /\ \E i, j \in 1..Len(pw) :
          /\ BodyClosed(i) /\ BodyClosed(j)
          /\ wk[i].can.mode # wk[j].can.mode
          /\ Len(wk[i].seen) > Len(dchunk)
          /\ Len(dchunk) > 0

\* The goroutine of signature i waits for ever: it reads from a pipe that
\* has no Write pending and is not closed, and the driver has returned.
Blocked(i) ==
    /\ pc = "returned"
    /\ wk[i].pc \in {"start", "body", "drain"}
    /\ ~pw[i].busy
    /\ ~pw[i].closed

\* C8: when Verify has returned, on an error path too, every pipe is closed
\* or its worker is past its last Read: no worker stays blocked.
C8_NoWorkerBlocked == \A i \in 1..Len(pw) : ~Blocked(i)

\* The error the test expects for more signatures than MaxVerifications
\* (src/dkim/verify_test.go:290).
ErrTooManySignatures == [kind |-> "other", msg |-> "dkim: too many signatures"]

\* C9: with MaxVerifications N > 0 and a message of more than N signature
\* fields, Verify returns ErrTooManySignatures and exactly N Verifications,
\* those of the first N signatures.
C9_TooManySignatures ==
    (/\ ReturnedForMessage
     /\ world.MaxVerifications > 0
     /\ NumSignatureFields(world.msg) > world.MaxVerifications) =>
        /\ retErr = ErrTooManySignatures
        /\ Len(verifications) = world.MaxVerifications
        /\ \A i \in 1..Len(verifications) : verifications[i].sig = i


\* C10: for a signature with l=n, n >= 0, the hasher has received, when
\* Verify returns, exactly the first min(n, length) bytes of what the body
\* canonicalizer wrote, however the body was split; nothing else is an
\* error; with l=0 it has received nothing and the body hash is that of the
\* empty string.
C10_HashesFirstBytes ==
    (pc = "returned" /\ world.l >= 0) =>
        /\ retErr = NoErr
        /\ Len(verifications) = 1
        /\ verifications[1].BodyLength = world.l
        /\ wk[1].hw.sum =
              SubSeq(wk[1].canOut, 1, Min(world.l, Len(wk[1].canOut)))
        /\ verifications[1].Err \in
              {failError("body hash did not verify"),
               failError("signature did not verify")}
        /\ world.l = 0 =>
              /\ wk[1].hw.sum = <<>>
              /\ verifications[1].Err = failError("signature did not verify")

\* C10, its case: l=0 and a body whose canonical form is not empty came in
\* two Writes; the hasher has received nothing.
C10_Witness ==
    /\ pc = "returned"
    /\ world.l = 0
    /\ wk[1].hasCan
    /\ Len(wk[1].canOut) > 2
    /\ wk[1].writes = 2
    /\ wk[1].hw.sum = <<>>


\* C1: when Sign has returned no error for a message with a From field and
\* Verify has returned for the bytes Sign wrote, Verify has returned no
\* error and exactly one Verification, with the Err none and the Domain of
\* the options.
C1_VerifyOfSignSucceeds ==
    (/\ pc = "returned"
     /\ signing.done
     /\ signing.err = NoErr
     /\ Pick(readHeader(signing.msg, EOFError).h, 0, StrFrom) # <<>>) =>
        /\ retErr = NoErr
        /\ Len(verifications) = 1
        /\ verifications[1].Err = NoErr
        /\ verifications[1].Domain = signing.options.Domain

(***************************************************************************)
(* Properties of verify's checks of the i and a tags and of the key query, *)
(* under SpecKey.                                                          *)
(***************************************************************************)

\* Verify has returned the one Verification of the signature Sign wrote.
KeyReturned ==
    /\ pc = "returned"
    /\ signing.done
    /\ retErr = NoErr
    /\ Len(verifications) = 1

\* The name server has answered with the key record k.
Answered(k) == world.dns = <<Published(DomainX, Sel1, k.txt, k.keys)>>

\* The i tag of the signature is in the signing domain or in a subdomain.
IdentifierFits ==
    \/ signing.options.Identifier = <<>>
    \/ HasSuffix(signing.options.Identifier, <<64>> \o DomainX)
    \/ HasSuffix(signing.options.Identifier, <<46>> \o DomainX)

\* C11: a signature whose i tag ends neither with "@" and the d value nor
\* with "." and the d value gets a permanent failure; without i tag the
\* Identifier is "@" and the d value; and a Verification with Err none has
\* an Identifier that ends with "@" or "." and its Domain.
C11_IdentifierInDomain ==
    pc = "returned" =>
        \A j \in 1..Len(verifications) :
            /\ ~IdentifierFits => IsPermFail(verifications[j].Err)
            /\ signing.options.Identifier = <<>> =>
                  /\ verifications[j].Domain = DomainX
                  /\ verifications[j].Identifier = <<64>> \o DomainX
            /\ verifications[j].Err = NoErr =>
                  \/ HasSuffix(verifications[j].Identifier,
                               <<64>> \o verifications[j].Domain)
                  \/ HasSuffix(verifications[j].Identifier,
                               <<46>> \o verifications[j].Domain)

\* The signature with i=a@xx.org and d=x.org was reported with the permanent
\* failure "domain mismatch" although a key was published.
C11_Witness ==
    /\ KeyReturned
    /\ signing.options.Identifier = IdLonger
    /\ signing.options.Hash = ""
    /\ Answered([txt |-> KeyTxt(<<V1, P1>>), keys |-> KeysOf("k1")])
    /\ verifications[1].Err = permFailError("domain mismatch")
    /\ verifications[1].Identifier = IdLonger

\* The key record of the answer carries the flag s.
HasFlagS ==
    \E t \in {<<115>>, <<121, 58, 115>>} :
        Answered([txt |-> KeyTxt(<<V1, P1, <<TagT, t>>>>), keys |-> KeysOf("k1")])

\* C12: when the key record carries the flag s, a SHA-256 signature whose i
\* tag is in a subdomain of the d value (it ends with "." and the d value,
\* not with "@" and the d value) is reported with the permanent failure
\* "identifier and domain mismatch", and one with i=a@x.org verifies.
C12_StrictIdentifier ==
    (KeyReturned /\ HasFlagS /\ signing.options.Hash = "") =>
        /\ (/\ HasSuffix(signing.options.Identifier, <<46>> \o DomainX)
            /\ ~HasSuffix(signing.options.Identifier, <<64>> \o DomainX))
           => verifications[1].Err
                = permFailError("identifier and domain mismatch")
        /\ signing.options.Identifier = IdUser =>
              verifications[1].Err = NoErr

\* C13: a signature whose a tag is rsa-sha1 is reported with a permanent
\* failure, whatever the name server answers, and never with Err none.
C13_Sha1IsPermanentFailure ==
    (pc = "returned" /\ signing.done /\ signing.options.Hash = "sha1") =>
        /\ Len(verifications) = 1
        /\ verifications[1].Err # NoErr
        /\ IsPermFail(verifications[1].Err)

\* The key record of the answer has a well-formed RSA key of n bits.
AnsweredSize(n) == Answered([txt |-> KeyTxt(<<V1, P1>>),
                             keys |-> <<RSAPublicKey("k1", n)>>])

\* C14: a key record with an RSA key of less than 1024 bits gives a
\* permanent failure, and one of 1024 bits or more is not rejected as too
\* short.
C14_ShortKeysRejected ==
    KeyReturned =>
        \A n \in KeyBits :
            AnsweredSize(n) =>
                /\ n < 1024 => IsPermFail(verifications[1].Err)
                /\ n >= 1024 =>
                      verifications[1].Err # permFailError("key is too short")

\* What verify returns for each answer of the name server from which no key
\* comes.
KeyFailures ==
    {<<<<Published(DomainX, Sel1, KeyVersion2.txt, KeyVersion2.keys)>>,
       permFailError("incompatible public key version")>>,
     <<<<Published(DomainX, Sel1, KeyMissing.txt, KeyMissing.keys)>>,
       permFailError("key syntax error: missing public key data")>>,
     <<<<Published(DomainX, Sel1, KeyRevoked.txt, KeyRevoked.keys)>>,
       permFailError("key revoked")>>,
     <<<<Published(DomainX, Sel1, KeyNotBase64.txt, KeyNotBase64.keys)>>,
       permFailError("key syntax error")>>,
     <<<<Published(DomainX, Sel1, KeyNotDER.txt, KeyNotDER.keys)>>,
       permFailError("key syntax error")>>,
     <<<<Published(DomainX, Sel1, KeyEd25519.txt, KeyEd25519.keys)>>,
       permFailError("unsupported key algorithm")>>,
     <<<<Published(DomainX, Sel1, KeyNotRSA.txt, KeyNotRSA.keys)>>,
       permFailError("key syntax error: not an RSA public key")>>,
     <<<<Published(DomainX, Sel1, KeyMalformed.txt, KeyMalformed.keys)>>,
       permFailError("key syntax error")>>,
     <<<<Unpublished(DomainX, Sel1, "perm")>>,
       permFailError("no key for signature")>>,
     <<<<>>, permFailError("no key for signature")>>,
     <<<<Unpublished(DomainX, Sel1, "temp")>>,
       tempFailError("key unavailable")>>}

C16_SignKeepsMessage ==
    (signing.done /\ signing.err = NoErr) =>
        LET first == readHeader(signing.out, EOFError).h[1]
        IN  /\ IsPrefix(first, signing.out)
            /\ EqualFold(parseHeaderField(first).k, headerFieldName)
            /\ SubSeq(signing.out, Len(first) + 1, Len(signing.out))
                 = signing.msg

\* The options Sign must refuse: none, no Domain, no Selector, no Signer, a
\* signer whose key is neither RSA nor Ed25519, an unknown canonicalization,
\* an unsupported hash, HeaderKeys without From in any case.
InvalidOptions(o) ==
    IF o = NilOptions THEN TRUE
    ELSE \/ o.Domain = <<>>
         \/ o.Selector = <<>>
         \/ o.Signer.type \notin {"rsa", "ed25519"}
         \/ o.HeaderCanonicalization \notin {"", "simple", "relaxed"}
         \/ o.BodyCanonicalization \notin {"", "simple", "relaxed"}
         \/ o.Hash \notin {"", "sha1", "sha256"}
         \/ /\ ~o.HeaderKeys.isNil
            /\ \A j \in 1..Len(o.HeaderKeys.list) :
                  ToLower(o.HeaderKeys.list[j]) # StrFrom

WithCRLF(s) ==
    Flatten([i \in 1..Len(s) |->
                IF s[i] # 10 THEN <<s[i]>>
                ELSE IF i > 1 /\ s[i - 1] = 13 THEN <<10>>
                ELSE crlf])

\* s is made of CR LF pairs only.
OnlyCRLF(s) ==
    /\ Len(s) % 2 = 0
    /\ \A i \in 1..Len(s) : s[i] = (IF i % 2 = 1 THEN 13 ELSE 10)

\* s without the CR LF pairs at its end.
WithoutFinalCRLF(s) ==
    LET E == {e \in 0..Len(s) : OnlyCRLF(SubSeq(s, e + 1, Len(s)))}
    IN  SubSeq(s, 1, CHOOSE e \in E : \A o \in E : e <= o)

\* The simple canonical form of the body s (RFC 6376, 3.4.3), a CR at its
\* end kept.
SimpleBody(s) == WithoutFinalCRLF(WithCRLF(s)) \o crlf

\* C18: once the simple body canonicalizer is closed, what it wrote is the
\* body with CR LF for every bare LF, without the CR LF pairs at its end,
\* and one CR LF; for a body of line ends only that is CR LF alone; and it
\* never ends with two CR LF.
C18_SimpleBodyCanonical ==
    (pc = "closed" /\ world.mode = "simple") =>
        /\ wk[1].canOut = SimpleBody(world.msg)
        /\ OnlyCRLF(WithCRLF(world.msg)) => wk[1].canOut = crlf
        /\ HasSuffix(wk[1].canOut, crlf)
        /\ ~HasSuffix(wk[1].canOut, crlf \o crlf)

\* The body "\n\r\n\r" was written in three pieces, the second CR LF cut in
\* two, and the canonicalizer closed: it wrote "\r\n\r\n\r\r\n".
C18_Witness ==
    /\ pc = "closed"
    /\ world.mode = "simple"
    /\ world.msg = <<10, 13, 10, 13>>
    /\ bodyRead = world.msg
    /\ wk[1].canOut = <<13, 10, 13, 10, 13, 13, 10>>

\* The line l with one SP for every run of SP and HT, and none at its end.
RelaxedLine(l) ==
    Flatten([i \in 1..Len(l) |->
                IF l[i] \notin {32, 9} THEN <<l[i]>>
                ELSE IF /\ (i = 1 \/ l[i - 1] \notin {32, 9})
                        /\ \E j \in (i + 1)..Len(l) : l[j] \notin {32, 9}
                THEN <<32>>
                ELSE <<>>])

\* The relaxed canonical form of the body s (RFC 6376, 3.4.4): its lines
\* reduced, up to the last one that is not empty, each with CR LF.
RelaxedBody(s) ==
    LET ls == SplitCRLF(WithCRLF(s))
        N == {k \in 1..Len(ls) : RelaxedLine(ls[k]) # <<>>}
    IN  Flatten([k \in 1..(IF N = {} THEN 0
                           ELSE CHOOSE k \in N : \A o \in N : o <= k) |->
                    RelaxedLine(ls[k]) \o crlf])

\* Every CR of the body s is followed by LF.
NoBareCR(s) == \A i \in 1..Len(s) : s[i] = 13 => (i < Len(s) /\ s[i + 1] = 10)

\* C19: once the relaxed body canonicalizer is closed, what it wrote is
\* empty or ends with CR LF, is empty for a body of white space and line
\* ends only, and for a body without bare CR is the body with its runs of
\* SP and HT reduced to one SP, those before a line end removed, the empty
\* lines at its end removed, and one CR LF at the end.
C19_RelaxedBodyCanonical ==
    (pc = "closed" /\ world.mode = "relaxed") =>
        /\ wk[1].canOut = <<>> \/ HasSuffix(wk[1].canOut, crlf)
        /\ (\A i \in 1..Len(world.msg) : world.msg[i] \in {32, 9, 13, 10})
              => wk[1].canOut = <<>>
        /\ NoBareCR(world.msg) => wk[1].canOut = RelaxedBody(world.msg)

(***************************************************************************)
(* Properties of the relaxed header canonicalizers, under SpecField.       *)
(***************************************************************************)

\* The value made of the pieces ts in relaxed canonical form (RFC 6376,
\* 3.4.2): one SP for every run of white space between two words, none
\* before the first word and none after the last.
RelaxedValue(ts) ==
    Flatten([i \in 1..Len(ts) |->
                IF ts[i] \in FieldWords THEN ts[i]
                ELSE IF /\ i > 1
                        /\ ts[i - 1] \in FieldWords
                        /\ \E j \in (i + 1)..Len(ts) : ts[j] \in FieldWords
                THEN <<32>>
                ELSE <<>>])

\* C20: the relaxed header canonicalizer returns the name in lower case
\* and without white space, a colon, the value with one SP for every run
\* of SP, HT and folded line breaks and without white space at its ends,
\* and one CR LF.
C20_RelaxedHeaderCanonical ==
    pc = "canonical" =>
        wk[1].s = <<97, 98, 58>> \o RelaxedValue(world.tokens) \o crlf

(***************************************************************************)
(* Properties of the canonicalizers applied twice, under SpecAgain.        *)
(***************************************************************************)

\* C21: a canonicalizer given what it produced produces the same again:
\* the simple and the relaxed body canonicalizer write the same bytes, the
\* simple and the relaxed header canonicalizer return the same field.
C21_CanonicalizersIdempotent ==
    pc = "again" =>
        IF "mode" \in DOMAIN world
        THEN wk[2].canOut = wk[1].canOut
        ELSE wk[2].s = wk[1].s

\* The body " a\t\n" was made "\x20a\r\n" by the relaxed canonicalizer and
\* that output canonicalized again.
C21_Witness ==
    /\ pc = "again"
    /\ "mode" \in DOMAIN world
    /\ world.mode = "relaxed"
    /\ world.msg = <<32, 97, 9, 10>>
    /\ wk[1].canOut = <<32, 97, 13, 10>>
    /\ Len(wk) = 2

(***************************************************************************)
(* Properties of the formatters of the signature field, under SpecFormat.  *)
(***************************************************************************)

\* C22: parseHeaderParams on what formatHeaderParams returned for a tag map
\* returns no error and the same map: the same tag names, each with the
\* same value, also when the value is longer than a line.
C22_ParseOfFormat ==
    (pc = "parsed" /\ wk[1].by \in {"params", "foldedparams"}) =>
        /\ ~wk[2].err
        /\ wk[2].params = world.params

\* The lines of a text that ends with a line break: what stands between
\* two CR LF, and before the first.
LinesOf(text) ==
    LET ls == SplitCRLF(text)
    IN  IF ls[Len(ls)] = <<>> THEN SubSeq(ls, 1, Len(ls) - 1) ELSE ls

\* C23: the folded DKIM-Signature field has no empty line, no line of
\* white space only, and does not end with a line break cut by a fold
\* (CR LF SP LF).
C23_NoBlankLine ==
    (pc = "formatted" /\ wk[1].by \in {"signature", "foldedsignature"}) =>
        /\ \A i \in 1..Len(LinesOf(wk[1].text)) :
              \E j \in 1..Len(LinesOf(wk[1].text)[i]) :
                 LinesOf(wk[1].text)[i][j] \notin {32, 9}
        /\ ~HasSuffix(wk[1].text, <<13, 10, 32, 10>>)

\* The bytes of the i-th line of a field that count for its length: the
\* line, without the SP a continuation line starts with.
Payload(text, i) ==
    IF i = 1 THEN Len(LinesOf(text)[i]) ELSE Len(LinesOf(text)[i]) - 1

\* C24: in the folded DKIM-Signature field every line after the first
\* starts with SP, and no line has more than 75 bytes of payload.
C24_LinesFolded ==
    (pc = "formatted"
        /\ wk[1].by \in {"signature", "foldedsignature", "DKIMSignature"}) =>
        \A i \in 1..Len(LinesOf(wk[1].text)) :
            /\ i > 1 => (/\ LinesOf(wk[1].text)[i] # <<>>
                         /\ LinesOf(wk[1].text)[i][1] = 32)
            /\ Payload(wk[1].text, i) <= 75

(***************************************************************************)
(* The body canonicalizers and the cuts between writes, under SpecCanon.   *)
(***************************************************************************)

\* What a new body canonicalizer writes when it is given body in one Write
\* and closed.
SingleWrite(mode, body) ==
    Flatten(CanonWrite(CanonicalizeBody(mode), body).out)
        \o Flatten(CanonClose(CanonWrite(CanonicalizeBody(mode), body).c).out)

\* C25: what the relaxed body canonicalizer has written once it is closed
\* is what it writes for the same bytes given in one Write, wherever the
\* bytes were cut between writes.
C25_RelaxedWritesAnySplit ==
    (pc = "closed" /\ world.mode = "relaxed") =>
        wk[1].canOut = SingleWrite("relaxed", world.msg)

\* C26: what the simple body canonicalizer has written once it is closed
\* is what it writes for the same bytes given in one Write, wherever the
\* bytes were cut between writes; and every Write returned the length of
\* its input.
C26_SimpleWritesAnySplit ==
    (pc \in {"canon", "closed"} /\ world.mode = "simple") =>
        /\ wk[1].ns = [j \in 1..Len(wk[1].ns) |-> Len(world.writes[j])]
        /\ pc = "closed" => wk[1].canOut = SingleWrite("simple", world.msg)

\* The writes "\r\n", "\r", "\n" were made on the simple canonicalizer and
\* it was closed: it wrote "\r\n", as for "\r\n\r\n" in one write.
C26_Witness ==
    /\ pc = "closed"
    /\ world.mode = "simple"
    /\ world.writes = <<<<13, 10>>, <<13>>, <<10>>>>
    /\ wk[1].ns = <<2, 1, 1>>
    /\ wk[1].canOut = crlf
    /\ SingleWrite("simple", <<13, 10, 13, 10>>) = crlf

(***************************************************************************)
(* Properties of parallelVerify under fair scheduling (SpecFair).          *)
(***************************************************************************)

\* No Read of the caller's reader fails: it gives its bytes and then EOF.
CleanReader ==
    /\ rd.term = "EOF"
    /\ ~rd.failed
    /\ \A j \in 1..Len(rd.chunks) : rd.chunks[j] # FailedRead

\* parallelVerify has returned, every goroutine has sent one result and is
\* done, and the driver has received one result per signature.
AllCollected ==
    /\ pc = "returned"
    /\ Len(wk) = Len(signatures)
    /\ Len(pw) = Len(signatures)
    /\ Len(verifications) = Len(signatures)
    /\ \A i \in 1..Len(wk) :
          /\ wk[i].pc = "done"
          /\ pw[i].closed
          /\ ~pw[i].busy
          /\ chans[i] = <<>>

\* C27: for a message with several signatures whose reader reaches EOF
\* without error, Verify returns, with every pipe closed and drained, one
\* result sent by every goroutine and all of them received.
C27_ParallelVerifyReturns ==
    (/\ CleanReader
     /\ HasHeader(world.msg)
     /\ NumSignatureFields(world.msg) > 1) ~> AllCollected

\* Verify has returned for three signatures; the verification of the first
\* failed before it read any byte of the body, and its goroutine drained
\* its pipe.
C27_Witness ==
    /\ AllCollected
    /\ CleanReader
    /\ Len(signatures) = 3
    /\ ~wk[1].hasCan
    /\ wk[1].err # NoErr
    /\ Len(bodyRead) > 0

\* The signature value sigValue fails a tag validation verify makes before
\* it asks for the key: its tags are malformed, its version is not 1, or it
\* has expired at nowSec.
BadTags(sigValue, nowSec) ==
    LET pp == parseHeaderParams(sigValue)
        x == parseTime(Tag(pp.params, TagX))
    IN  IF pp.err THEN TRUE
        ELSE IF Tag(pp.params, TagV) # <<49>> THEN TRUE
        ELSE Has(pp.params, TagX) /\ x.ok /\ nowSec > x.n

\* The answer of the name servers dns for the key of the signature
\* sigValue.
KeyAnswer(sigValue, dns) ==
    LET pp == parseHeaderParams(sigValue)
    IN  query(dns, stripWhitespace(Tag(pp.params, TagD)),
              stripWhitespace(Tag(pp.params, TagS)))

\* What the steps of verify have left behind for the worker w.
StepsOf(w) == <<w.c, w.hasCan, w.writes, w.hw, w.canOut, w.outcome, w.err>>

\* The worker w of the signature sigValue stopped at its first error: it
\* asked for the key at most once and not after a failed tag validation, it
\* reports the failure of the lookup it made, it hashed no body after an
\* error of the checks, and it reports a body hash that differs.
StoppedAtFirstError(w, sigValue, dns, nowSec) ==
    /\ w.c.lookups <= 1
    /\ BadTags(sigValue, nowSec) => w.c.lookups = 0 /\ w.c.err # NoErr
    /\ (w.c.lookups = 1 /\ KeyAnswer(sigValue, dns).err # NoErr)
          => w.c.err = KeyAnswer(sigValue, dns).err
    /\ w.c.err # NoErr
          => /\ ~w.hasCan
             /\ w.writes = 0
             /\ w.hw.sum = <<>>
             /\ w.outcome = "none"
             /\ w.err = w.c.err
    /\ (w.outcome # "none" /\ Digest("sha256", w.hw.sum) # w.c.bodyHashed)
          => /\ w.outcome = "bodyhash"
             /\ w.err = failError("body hash did not verify")

\* C28: within the verification of one signature the first error ends it:
\* the key is looked up at most once and never after a tag validation
\* failed, no body is hashed after a failure of the key or of a tag, no
\* signature is checked after a body hash mismatch, and once the
\* verification has its error no step of it changes what it did.
C28_FirstErrorEnds ==
    /\ [](\A i \in DOMAIN wk :
            wk[i].pc # "start"
              => StoppedAtFirstError(wk[i], signatures[i].v, world.dns,
                                     world.now))
    /\ [][\A i \in DOMAIN wk :
            wk[i].err # NoErr => StepsOf(wk'[i]) = StepsOf(wk[i])]_vars

\* Verify has returned for two signatures: the first has version 2 and no
\* key was asked for it; the second names the query method twice, its key
\* was asked for once, and its body hash differs.
C28_Witness ==
    /\ pc = "returned"
    /\ Len(wk) = 2
    /\ wk[1].c.err = permFailError("incompatible signature version")
    /\ wk[1].c.lookups = 0
    /\ Len(parseTagList(Tag(parseHeaderParams(signatures[2].v).params, TagQ))) = 2
    /\ wk[2].c.lookups = 1
    /\ wk[2].outcome = "bodyhash"
    /\ Len(verifications) = 2

\* Every check of verify succeeded for the worker w: the tags and the key,
\* the hash of the body it read against bh, and the signature.
VerifiedSignature(w) ==
    /\ w.pc = "done"
    /\ w.c.err = NoErr
    /\ w.hasCan
    /\ Digest("sha256", w.hw.sum) = w.c.bodyHashed
    /\ w.outcome = "ok"
    /\ w.err = NoErr

\* C29: in the list Verify returns, with or without an error beside it, a
\* Verification whose Err is nil is the one of a signature for which the
\* tags, the key, the body hash and the signature were all found good; the
\* Verification of a signature that stopped on an error carries an error.
C29_ErrNoneMeansVerified ==
    pc = "returned"
      => \A k \in 1..Len(verifications) :
            LET v == verifications[k]
            IN  /\ v.sig \in DOMAIN wk
                /\ v.Err = NoErr => VerifiedSignature(wk[v.sig])
                /\ wk[v.sig].err # NoErr => v.Err = wk[v.sig].err

\* Verify has returned two Verifications: one without error for a
\* signature that verified, one with the error its verification ended on.
C29_Witness ==
    /\ pc = "returned"
    /\ Len(verifications) = 2
    /\ \E k \in 1..2 :
          /\ verifications[k].Err = NoErr
          /\ VerifiedSignature(wk[verifications[k].sig])
    /\ \E k \in 1..2 :
          /\ verifications[k].Err # NoErr
          /\ wk[verifications[k].sig].err = verifications[k].Err

\* The numbers of the fields of the header hh whose name is key in any case
\* of the letters.
FieldsNamed(hh, key) ==
    {i \in 1..Len(hh) : EqualFold(parseHeaderField(hh[i]).k, key)}

\* The calls up to number j of the sequence calls whose key is key in any
\* case of the letters.
CallsFor(calls, j, key) ==
    {m \in 1..j : EqualFold(calls[m].key, key)}

\* Call number j of calls on a picker over hh did what Pick is to do: as
\* the n-th call for its key it returned the n-th field of that name from
\* the bottom, or nothing and left the picker as it was when there are less
\* than n; it left the counts of the other keys alone.
PickedRight(hh, calls, j) ==
    LET c == calls[j]
        M == FieldsNamed(hh, c.key)
        n == Cardinality(CallsFor(calls, j, c.key))
    IN  /\ IF n <= Cardinality(M)
           THEN /\ c.i = Nth(M, Cardinality(M) - n + 1)
                /\ c.kv = hh[c.i]
                /\ PickedAt(c.after, ToLower(c.key)) = n
           ELSE /\ c.kv = <<>>
                /\ c.after = c.before
        /\ \A k \in PickKeys :
              ~EqualFold(k, c.key)
                => PickedAt(c.after, ToLower(k)) = PickedAt(c.before, ToLower(k))

\* C30: the n-th call of Pick for a key, the case of its letters ignored,
\* returns the n-th field of that name counted from the bottom of the
\* header; once the fields of that name are used up it returns the empty
\* string and changes nothing; calls for other keys do not count.
C30_PickBottomUp ==
    pc = "pick"
      => \A j \in 1..Len(wk[1].calls) :
            PickedRight(world.header, wk[1].calls, j)

\* Four calls on a header with two fields named To in different case: the
\* first call returned the lower one, a call for From came between, the
\* next call for To, written in another case, returned the upper one, and
\* the last call for To returned nothing.
C30_Witness ==
    /\ pc = "pick"
    /\ Len(wk[1].calls) = 4
    /\ Cardinality(FieldsNamed(world.header, <<116, 111>>)) = 2
    /\ LET c == wk[1].calls
       IN  /\ EqualFold(c[1].key, <<116, 111>>) /\ c[1].i > 0
           /\ EqualFold(c[2].key, StrFrom) /\ c[2].i > 0
           /\ EqualFold(c[3].key, <<116, 111>>) /\ c[3].key # c[1].key
           /\ c[3].i > 0 /\ c[3].i < c[1].i
           /\ world.header[c[3].i] # world.header[c[1].i]
           /\ EqualFold(c[4].key, <<116, 111>>) /\ c[4].kv = <<>>
           /\ c[4].after = c[4].before

\* The number of the field of the header hh that the call of Pick for the
\* name of field j is to return when Pick is called for the names of the
\* fields 1, 2, ... in turn: of the fields of that name, as many from the
\* bottom as fields of that name stand at or above j.
FieldPickedFor(hh, j) ==
    LET M == FieldsNamed(hh, parseHeaderField(hh[j]).k)
    IN  Nth(M, Cardinality(M) - Cardinality({i \in M : i <= j}) + 1)

\* The bytes s begin with the bytes t.
HasPrefix(s, t) == Len(s) >= Len(t) /\ SubSeq(s, 1, Len(t)) = t

\* Sign of the message msg without HeaderKeys wrote out and signed the
\* hash input data: the h tag of the new field lists the names of the
\* fields of msg in their order, and data is every field of msg once,
\* canonicalized with can, followed by the signature field.
AllFieldsSigned(msg, out, can, data) ==
    LET hh == readHeader(msg, EOFError).h
        sigValue == parseHeaderField(readHeader(out, EOFError).h[1]).v
        fields == Flatten([j \in 1..Len(hh) |->
                             CanonicalizeHeader(can, hh[FieldPickedFor(hh, j)])])
    IN  /\ stripWhitespace(Tag(parseHeaderParams(sigValue).params, TagH))
              = formatTagList([j \in 1..Len(hh) |-> parseHeaderField(hh[j]).k])
        /\ {FieldPickedFor(hh, j) : j \in 1..Len(hh)} = 1..Len(hh)
        /\ HasPrefix(data, fields)
        /\ HasPrefix(ToLower(SubSeq(data, Len(fields) + 1, Len(data))),
                     ToLower(headerFieldName) \o <<58>>)

\* C31: when Sign is given no HeaderKeys, the h tag lists the name of every
\* header field of the input in order of appearance, repeated names
\* included, and the header hash is fed every field of the input exactly
\* once.
C31_EveryFieldSignedOnce ==
    (signing.done /\ signing.err = NoErr /\ signing.options.HeaderKeys.isNil)
      => AllFieldsSigned(signing.msg, signing.out,
                         DefaultSimple(signing.options.HeaderCanonicalization),
                         world.oracle[2].data)

\* Sign without HeaderKeys has signed a message of three fields, the first
\* and the last named To in different case.
C31_Witness ==
    /\ signing.done
    /\ signing.err = NoErr
    /\ signing.options.HeaderKeys.isNil
    /\ LET hh == readHeader(signing.msg, EOFError).h
       IN  /\ Len(hh) = 3
           /\ FieldsNamed(hh, <<116, 111>>) = {1, 3}
           /\ parseHeaderField(hh[1]).k # parseHeaderField(hh[3]).k
           /\ hh[1] # hh[3]
    /\ Len(world.oracle) = 2

\* The tags of the map params but b.
OtherTags(params) == [k \in DOMAIN params \ {TagB} |-> params[k]]

\* removeSignature took from the signature field only the value of its b
\* tag: the other tags read as before, the b tag is empty, and the text
\* verify hashes for the field, canonicalized with can, is the text at the
\* end of data, the bytes the signer hashed.
OnlySignatureRemoved(field, can, data) ==
    LET before == parseHeaderParams(parseHeaderField(field).v)
        after == parseHeaderParams(parseHeaderField(removeSignature(field)).v)
    IN  /\ ~after.err
        /\ OtherTags(after.params) = OtherTags(before.params)
        /\ Tag(after.params, TagB) = <<>>
        /\ HasSuffix(data,
                     TrimRight(CanonicalizeHeader(can, removeSignature(field)),
                               {13, 10}))

\* C32: before verify hashes the DKIM-Signature field only the value of
\* its b tag is removed; every other tag, also one whose value contains
\* "b=", is left as it was, and the verifier hashes the text the signer
\* hashed with an empty b value.
C32_OnlyBRemoved ==
    (signing.done /\ signing.err = NoErr)
      => OnlySignatureRemoved(
            readHeader(signing.out, EOFError).h[1],
            DefaultSimple(signing.options.HeaderCanonicalization),
            world.oracle[2].data)

\* C33: the header reader returns every field with the bytes it had in the
\* input, line ends and the white space of continuation lines included,
\* so that the fields written back, with the bytes left unread after them,
\* are the input byte for byte.
C33_HeaderBytesKept ==
    pc = "written"
      => /\ wk[1].out \o bodyRead = world.msg
         /\ Flatten(h) \o crlf = wk[1].out

\* The bytes m have an empty line: a LF, or a CR LF, at the start of m or
\* right after a LF.
HasEmptyLine(m) ==
    \E i \in 1..Len(m) :
       /\ m[i] = 10
       /\ \/ i = 1
          \/ m[i - 1] = 10
          \/ m[i - 1] = 13 /\ (IF i = 2 THEN TRUE ELSE m[i - 2] = 10)

\* C34: when the input ends before the empty line that ends the header,
\* the header reader returns an error, and Verify returns that error and
\* no Verification.
C34_IncompleteHeaderFails ==
    (pc # "verify" /\ ~HasEmptyLine(world.msg))
      => /\ pc = "returned"
         /\ retErr # NoErr
         /\ verifications = <<>>
         /\ wk = <<>>

\* Verify has returned an error and no Verification for a message with two
\* signature fields that was cut off before the end of its header.
C34_Witness ==
    /\ pc = "returned"
    /\ ~HasEmptyLine(world.msg)
    /\ world.msg \in Truncated(Signed2.out)
    /\ Len(world.msg) > 20
    /\ retErr = EOFError
    /\ verifications = <<>>

\* The segments of the tag list s between its ";": for each the place of
\* its first and last byte.
SegmentsOf(s) ==
    LET semis == Sorted({i \in 1..Len(s) : s[i] = 59})
    IN  [j \in 1..(Len(semis) + 1) |->
           [from |-> IF j = 1 THEN 1 ELSE semis[j - 1] + 1,
            to   |-> IF j > Len(semis) THEN Len(s) ELSE semis[j] - 1]]

\* The place of the first "=" of the segment g of s, 0 when it has none.
FirstEquals(s, g) ==
    LET E == {i \in g.from..g.to : s[i] = 61}
    IN  IF E = {} THEN 0 ELSE Nth(E, 1)

\* The segment g of s has a byte that is not white space, and no "=".
BadSegment(s, g) ==
    /\ FirstEquals(s, g) = 0
    /\ \E i \in g.from..g.to : s[i] \notin {32, 9, 13, 10}

\* The name and the value of the segment g of s, which has a "=": the
\* bytes before and after its first "=", without the white space around
\* them.
SegmentName(s, g) == TrimSpace(SubSeq(s, g.from, FirstEquals(s, g) - 1))
SegmentValue(s, g) == TrimSpace(SubSeq(s, FirstEquals(s, g) + 1, g.to))

\* C35: parsing a tag list returns an error exactly when a segment between
\* ";" has a byte that is not white space and no "="; the empty and blank
\* segments, a trailing ";" included, are skipped, so that the tags are
\* those of the segments with "="; in verify the error is the permanent
\* failure of the signature.
C35_MalformedTagList ==
    LET s == world.s
        segs == SegmentsOf(s)
        bad == \E j \in 1..Len(segs) : BadSegment(s, segs[j])
    IN  /\ pc \in {"parsed", "verified"}
           => /\ wk[1].err = bad
              /\ ~bad => DOMAIN wk[1].params
                            = {SegmentName(s, segs[j]) :
                                 j \in {i \in 1..Len(segs) :
                                          FirstEquals(s, segs[i]) # 0}}
        /\ pc = "verified"
           => /\ bad => wk[2].err = permFailError("malformed signature tags")
              /\ ~bad => wk[2].err # permFailError("malformed signature tags")

\* The tag list "a=1; ;a" and the like: a tag, a blank segment, and a
\* segment without "=" has been refused by parseHeaderParams and by
\* verify.
C35_Witness ==
    /\ pc = "verified"
    /\ Len(SegmentsOf(world.s)) = 3
    /\ FirstEquals(world.s, SegmentsOf(world.s)[1]) # 0
    /\ ~BadSegment(world.s, SegmentsOf(world.s)[2])
    /\ FirstEquals(world.s, SegmentsOf(world.s)[2]) = 0
    /\ BadSegment(world.s, SegmentsOf(world.s)[3])
    /\ wk[1].err
    /\ IsPermFail(wk[2].err)

\* C36: when a tag name occurs more than once in a tag list, parsing keeps
\* the value of its first occurrence; every value is kept without the
\* white space around it and with the white space inside it.
C36_FirstOccurrenceWins ==
    LET s == world.s
        segs == SegmentsOf(s)
        Tags == {j \in 1..Len(segs) : FirstEquals(s, segs[j]) # 0}
    IN  (pc = "parsed" /\ ~wk[1].err)
          => \A j \in Tags :
                (\A i \in Tags : i < j
                     => SegmentName(s, segs[i]) # SegmentName(s, segs[j]))
                  => wk[1].params[SegmentName(s, segs[j])]
                       = SegmentValue(s, segs[j])


\* The text without the bytes of its folds: CR, LF and SP.
Unfolded(text) == SelectSeq(text, LAMBDA c : c \notin {13, 10, 32})

\* "k=v;" for keys[j..], in the order of keys.
RECURSIVE TagsInOrder(_, _, _)
TagsInOrder(params, keys, j) ==
    IF j > Len(keys) THEN <<>>
    ELSE keys[j] \o <<61>> \o params[keys[j]] \o <<59>>
           \o TagsInOrder(params, keys, j + 1)

\* The keys other than b by the length of their values, keys of values of
\* one length by key, and b after them.
ByValueLength(params) ==
    SortParams(params, DOMAIN params \ {TagNameB})
        \o (IF TagNameB \in DOMAIN params THEN <<TagNameB>> ELSE <<>>)

\* C37: the formatted text of a tag map has the tags other than b in
\* ascending order of the length of their values, tags with values of one
\* length in ascending order of their keys, and the b tag after every
\* other tag.
C37_TagsByValueLength ==
    (pc = "formatted" /\ wk[1].by \in {"params", "foldedparams"})
        => Unfolded(wk[1].text)
             = TagsInOrder(world.params, ByValueLength(world.params), 1)


\* The places of the folds of a text: where CR LF SP starts.
FoldsAt(text) ==
    {p \in 1..(Len(text) - 2) :
        text[p] = 13 /\ text[p + 1] = 10 /\ text[p + 2] = 32}

\* The orders the tags of a tag map can be written in.
TagOrders(params) ==
    {ks \in [1..Cardinality(DOMAIN params) -> DOMAIN params] :
        \A i, j \in DOMAIN ks : i # j => ks[i] # ks[j]}

\* The h tag does not fit on one line of 75 bytes.
LongH(params) ==
    IF TagNameH \in DOMAIN params THEN Len(params[TagNameH]) + 3 > 75
    ELSE FALSE

\* C38: in the DKIM-Signature field of a tag map whose h tag is too long
\* for one line, every fold stands directly after a ":" between two header
\* names or after the ";" or SP that ends a tag, so that no header name and
\* no other token is split, and the field without its folds is the
\* unfolded field.
C38_FoldsAtColons ==
    (pc = "formatted" /\ wk[1].by \in {"signature", "foldedsignature"}
        /\ LongH(world.params)) =>
        /\ \A p \in FoldsAt(wk[1].text) :
              IF p = 1 THEN FALSE ELSE wk[1].text[p - 1] \in {58, 59, 32}
        /\ \E ks \in TagOrders(world.params) :
              Unfolded(wk[1].text)
                = Unfolded(headerFieldName \o <<58>>
                             \o TagsInOrder(world.params, ks, 1))


\* C39: every Write of the length-limiting writer returns the length of its
\* input and no error, whatever budget it found and also when it forwarded
\* a prefix of the input or nothing; it forwards the first bytes of the
\* input, as many as the budget allows, and the budget is never negative.
C39_WriteReportsComplete ==
    pc = "writer" =>
        \A j \in 1..Len(wk) :
            /\ wk[j].n = Len(wk[j].b)
            /\ wk[j].err = "nil"
            /\ wk[j].fwd = SubSeq(wk[j].b, 1, Min(wk[j].before, Len(wk[j].b)))
            /\ wk[j].N = wk[j].before - Len(wk[j].fwd)
            /\ wk[j].N >= 0


\* What AddTag has appended to the buffer, without the folds.
Appended == Unfolded(SubSeq(wk[1].Buf, world.LineLen + 1, Len(wk[1].Buf)))

\* C40: AddTag returns for every tag, plain, delimited or base64, with an
\* empty name, an empty value or a value longer than a line, and for every
\* length of the current line; when it has returned, the buffer has got
\* the name, "=", the value and ";" of the tag, folds apart.
C40_AddTagReturns ==
    /\ <>(pc = "added")
    /\ [](pc = "added" => Appended = world.t.TagAndValue \o <<59>>)

==============================================================================
